---- MODULE Spec2Model ----
(***************************************************************************)
(* Model of the dunsumday library: schedule iterators (util/sched.rs),     *)
(* occurrence generation (util/occgen.rs), the occurrence materialiser     *)
(* (util.rs) and the SQLite store's write path (db/sqlite.rs).             *)
(*                                                                         *)
(* Dates (chrono::NaiveDate) are day numbers counted from 1970-01-01.      *)
(* Instants (OccDate) are ticks: day * TicksPerDay + time of day.          *)
(* Option<T> is a sequence of length 0 (None) or 1 (Some).                 *)
(***************************************************************************)
EXTENDS Integers, Sequences, FiniteSets, TLC

VARIABLES
  overflow_checks,  \* build profile: TRUE = arithmetic overflow panics (debug)
  it_kind,          \* "days" (DayFilterDaysIter) or "periods" (ProgressTaskPeriodsIter)
  it_iter,          \* the iterator struct (its schedule and cursor self.day)
  it_start,         \* start_day given to new()
  it_out,           \* what next() has returned so far, in order
  it_status,        \* "running", "ended" (None), "panicked", "hung"
  store,            \* the database: items, occs, configs
  update_token,     \* the static UPDATE_TOKEN counter
  request,          \* the Db::write call in flight (an Option)
  calls             \* completed calls, latest last

vars ==
  <<overflow_checks, it_kind, it_iter, it_start, it_out, it_status,
    store, update_token, request, calls>>

(***************************************************************************)
(* Bounds of the model.                                                    *)
(***************************************************************************)
MaxStride ==
  2
MaxYields ==
  4
NumStartDays ==
  91
SecsPerDay ==
  2
TicksPerSecond ==
  2
MaxBatch ==
  2
MaxRows ==
  2
MaxCalls ==
  2
\* the longest list handed to resolve_config
MaxChain ==
  3
\* the largest batch handed to get_items_configs and get_occs_configs
MaxObjects ==
  2
\* the most occurrences handed to resolve_occs_progress_using
MaxOccs ==
  3
\* IdToken is a u64: the model keeps UPDATE_TOKEN modulo TokenModulus, its
\* 2^64 scaled down, so that the wrap of fetch_add is within reach
TokenModulus ==
  8
\* the most calls of DbUpdate::id_token made by all threads together
MaxTokenCalls ==
  9

None ==
  <<>>
Some(v) ==
  <<v>>
IsSome(o) ==
  Len(o) = 1
Unwrap(o) ==
  o[1]
UnwrapOr(o, d) ==
  IF Len(o) = 1 THEN o[1] ELSE d
MinOf(S) ==
  CHOOSE x \in S : \A y \in S : x <= y
MaxOf(S) ==
  CHOOSE x \in S : \A y \in S : x >= y

(***************************************************************************)
(* chrono's proleptic Gregorian calendar.  Every intermediate value is     *)
(* handed on as an operator argument, so each is computed once.            *)
(***************************************************************************)
DaysFromCivilEra(yy, era, doy) ==
  era * 146097 + (yy - era * 400) * 365 + (yy - era * 400) \div 4
    - (yy - era * 400) \div 100 + doy - 719468
DaysFromCivilYear(yy, mp, d) ==
  DaysFromCivilEra(yy, yy \div 400, (153 * mp + 2) \div 5 + d - 1)
DaysFromCivil(y, m, d) ==
  DaysFromCivilYear(IF m <= 2 THEN y - 1 ELSE y, IF m > 2 THEN m - 3 ELSE m + 9, d)

CivilOfMonth(y0, m, d) ==
  [y |-> y0 + (IF m <= 2 THEN 1 ELSE 0), m |-> m, d |-> d]
CivilOfMp(y0, doy, mp) ==
  CivilOfMonth(y0, IF mp < 10 THEN mp + 3 ELSE mp - 9, doy - (153 * mp + 2) \div 5 + 1)
CivilOfDoy(y0, doy) ==
  CivilOfMp(y0, doy, (5 * doy + 2) \div 153)
CivilOfYoe(era, doe, yoe) ==
  CivilOfDoy(yoe + era * 400, doe - (365 * yoe + yoe \div 4 - yoe \div 100))
CivilOfDoe(era, doe) ==
  CivilOfYoe(era, doe,
             (doe - doe \div 1460 + doe \div 36524 - doe \div 146096) \div 365)
CivilOfEra(zz, era) ==
  CivilOfDoe(era, zz - era * 146097)
\* the year, month and day of the month of a date
CivilFromDays(z) ==
  CivilOfEra(z + 719468, (z + 719468) \div 146097)

YearOf(date) ==
  CivilFromDays(date).y
MonthOf(date) ==
  CivilFromDays(date).m
DayOf(date) ==
  CivilFromDays(date).d

\* chrono::Weekday::number_from_monday of date.weekday(): Mon = 1 .. Sun = 7
WeekdayOf(date) ==
  ((date + 3) % 7) + 1

IsLeap(y) ==
  (y % 4 = 0 /\ y % 100 # 0) \/ y % 400 = 0
MonthLen(y, m) ==
  IF m = 2 THEN (IF IsLeap(y) THEN 29 ELSE 28)
  ELSE IF m \in {4, 6, 9, 11} THEN 30 ELSE 31

NaiveDateMAX ==
  DaysFromCivil(262142, 12, 31)
NaiveDateMIN ==
  DaysFromCivil(0 - 262143, 1, 1)

\* NaiveDate::from_ymd_opt
FromYmdOpt(y, m, d) ==
  IF /\ m \in 1..12
     /\ d >= 1
     /\ d <= MonthLen(y, m)
     /\ y >= 0 - 262143
     /\ y <= 262142
  THEN Some(DaysFromCivil(y, m, d))
  ELSE None

\* NaiveDate::with_day / with_month, on the date's civil form c
WithDayC(c, d) ==
  FromYmdOpt(c.y, c.m, d)
WithMonthC(c, m) ==
  FromYmdOpt(c.y, m, c.d)
WithDay(date, d) ==
  WithDayC(CivilFromDays(date), d)
WithMonth(date, m) ==
  WithMonthC(CivilFromDays(date), m)

\* NaiveDate::checked_add_months / checked_sub_months: the day of the month
\* is clamped to the target month's length
ClampedYmd(y, m, d, len) ==
  FromYmdOpt(y, m, IF d <= len THEN d ELSE len)
AddMonthsC(c, t) ==
  ClampedYmd(t \div 12, (t % 12) + 1, c.d, MonthLen(t \div 12, (t % 12) + 1))
CheckedAddMonthsC(c, months) ==
  AddMonthsC(c, c.y * 12 + (c.m - 1) + months)
CheckedAddMonths(date, months) ==
  CheckedAddMonthsC(CivilFromDays(date), months)
CheckedSubMonths(date, months) ==
  CheckedAddMonthsC(CivilFromDays(date), 0 - months)

\* `date + naive::Days::new(n)`: None stands for the panic on overflow
AddDays(date, n) ==
  IF date + n <= NaiveDateMAX THEN Some(date + n) ELSE None
SubDays(date, n) ==
  IF date - n >= NaiveDateMIN THEN Some(date - n) ELSE None

\* 2^32 modulo m, computed within 32-bit integers
Pow2To32Mod(m) ==
  ((65536 % m) * (65536 % m)) % m

\* (a - b) % 7 on u32: None stands for the overflow panic of a checked build,
\* an unchecked build wraps modulo 2^32
SubU32Mod7(a, b, checks) ==
  IF a >= b THEN Some((a - b) % 7)
  ELSE IF checks THEN None
  ELSE Some((Pow2To32Mod(7) + 7 + a - b) % 7)

(***************************************************************************)
(* util/sched.rs: date helpers.                                            *)
(***************************************************************************)
year_of_date(date) ==
  YearOf(date)

DaysInMonthC(c) ==
  (UnwrapOr(IF c.m = 12 THEN FromYmdOpt(c.y + 1, 1, 1)
            ELSE FromYmdOpt(c.y, c.m + 1, 1), NaiveDateMAX)
   - UnwrapOr(FromYmdOpt(c.y, c.m, 1), NaiveDateMAX)) % 256
days_in_month(date) ==
  DaysInMonthC(CivilFromDays(date))

of_year(year) ==
  UnwrapOr(FromYmdOpt(year, 1, 1), NaiveDateMAX)

WithDomMin(c, dom, dim) ==
  UnwrapOr(WithDayC(c, IF dom < dim THEN dom ELSE dim), NaiveDateMAX)
WithDomSaturatingC(c, dom) ==
  WithDomMin(c, dom, DaysInMonthC(c))
with_dom_saturating(date, dom) ==
  WithDomSaturatingC(CivilFromDays(date), dom)

with_moy_dom_saturating(date, moy, dom) ==
  with_dom_saturating(UnwrapOr(WithMonth(date, moy), NaiveDateMAX), dom)

\* Option: None is a panic (u32 underflow in a checked build, or date overflow)
ForwardsBy(date, same, diff) ==
  IF ~IsSome(diff) THEN None
  ELSE IF same THEN Some(date)
  ELSE AddDays(date, Unwrap(diff))
forwards_to_dow(date, dow, checks) ==
  ForwardsBy(date, dow = WeekdayOf(date), SubU32Mod7(dow, WeekdayOf(date), checks))

add_months(date, months) ==
  UnwrapOr(CheckedAddMonths(date, months), NaiveDateMAX)

(***************************************************************************)
(* util/sched.rs: DayFilterDaysIter.  A DayFilter is a record tagged by k. *)
(* The result of next() is a record: kind "some" (val yielded), "none",    *)
(* "panic" (the call panics) or "hang" (the call never returns); day is    *)
(* the cursor after the call.                                              *)
(***************************************************************************)
SeqToSet(s) ==
  {s[i] : i \in 1..Len(s)}

DayFilterDaysIterNew(day_filter, start_day) ==
  [day_filter |-> day_filter,
   day        |-> start_day,
   dows_days  |-> IF day_filter.k = "Dows" THEN SeqToSet(day_filter.days) ELSE {},
   dom_days   |-> IF day_filter.k = "Dom" THEN SeqToSet(day_filter.days) ELSE {},
   wom_weeks  |-> IF day_filter.k = "Wom" THEN SeqToSet(day_filter.weeks) ELSE {}]

NextSome(v, day) ==
  [kind |-> "some", val |-> v, day |-> day]
NextNone(day) ==
  [kind |-> "none", val |-> 0, day |-> day]
NextPanic(day) ==
  [kind |-> "panic", val |-> 0, day |-> day]
NextHang(day) ==
  [kind |-> "hang", val |-> 0, day |-> day]

\* yield `day` and move the cursor to `nd`, unless computing `nd` panicked
YieldThen(now, day, nd) ==
  IF IsSome(nd) THEN NextSome(day, Unwrap(nd)) ELSE NextPanic(now)

NextDay(f, now) ==
  YieldThen(now, now, AddDays(now, f.days_apart))

DowYield(f, now, day) ==
  IF ~IsSome(day) THEN NextPanic(now)
  ELSE YieldThen(now, Unwrap(day), AddDays(Unwrap(day), f.weeks_apart * 7))
NextDow(f, now, checks) ==
  DowYield(f, now, forwards_to_dow(now, f.day, checks))

RECURSIVE DowsScan(_, _)
DowsScan(dows_days, day) ==
  IF WeekdayOf(day) \in dows_days THEN day ELSE DowsScan(dows_days, day + 1)

DowsYield(now, day) ==
  IF day <= NaiveDateMAX THEN YieldThen(now, day, AddDays(day, 1))
  ELSE NextPanic(now)
NextDows(dows_days, now) ==
  IF dows_days = {} THEN NextNone(now)
  ELSE DowsYield(now, DowsScan(dows_days, now))

\* the day chosen within the cursor's month, if any (sched.rs 151-165)
DomSaturated(now, day) ==
  IF day = now THEN None ELSE Some(day)
DomMatch(now, now_dom, dom) ==
  IF now_dom = dom THEN Some(now)
  ELSE DomSaturated(now, with_dom_saturating(now, dom))
DomRange(dom_days, now, now_dom) ==
  IF {d \in dom_days : d >= now_dom} = {} THEN None
  ELSE DomMatch(now, now_dom, MinOf({d \in dom_days : d >= now_dom}))
DomThisMonth(dom_days, now) ==
  DomRange(dom_days, now, DayOf(now))

\* the first listed day months_apart months on (sched.rs 167-172)
DomNextMonth(dom_days, now, months_apart) ==
  with_dom_saturating(
    add_months(with_dom_saturating(now, 1), months_apart), MinOf(dom_days))

\* sched.rs 174-178; months_apart - 1 is a u32 subtraction: 0 - 1 panics in
\* a checked build, else it wraps to 2^32 - 1 months, which add_months
\* saturates to MAX
DomAdvance(f, now, day, nd, same_month, checks) ==
  IF same_month THEN NextSome(day, nd)
  ELSE IF f.months_apart = 0
       THEN (IF checks THEN NextPanic(now) ELSE NextSome(day, NaiveDateMAX))
  ELSE NextSome(day, add_months(nd, f.months_apart - 1))
DomCursor(f, now, day, nd, checks) ==
  IF ~IsSome(nd) THEN NextPanic(now)
  ELSE DomAdvance(f, now, day, Unwrap(nd),
                  MonthOf(Unwrap(nd)) = MonthOf(day), checks)
DomYield(f, now, day, checks) ==
  DomCursor(f, now, day, AddDays(day, 1), checks)
DomDay(f, dom_days, now, this, checks) ==
  IF IsSome(this) THEN DomYield(f, now, Unwrap(this), checks)
  ELSE DomYield(f, now, DomNextMonth(dom_days, now, f.months_apart), checks)
NextDom(f, dom_days, now, checks) ==
  IF dom_days = {} THEN NextNone(now)
  ELSE DomDay(f, dom_days, now, DomThisMonth(dom_days, now), checks)

RECURSIVE WomScan(_, _)
WomScan(wom_weeks, day) ==
  IF ((DayOf(day) - 1) \div 7 + 1) \in wom_weeks THEN day
  ELSE WomScan(wom_weeks, day + 7)

WomYield(now, day) ==
  IF day <= NaiveDateMAX THEN YieldThen(now, day, AddDays(day, 7))
  ELSE NextPanic(now)
WomFrom(wom_weeks, now, first) ==
  IF ~IsSome(first) THEN NextPanic(now)
  \* a day's week of the month is 1..5: no listed week is ever met
  ELSE IF wom_weeks \cap (1..5) = {} THEN NextHang(now)
  ELSE WomYield(now, WomScan(wom_weeks, Unwrap(first)))
NextWom(f, wom_weeks, now, checks) ==
  IF \A w \in SeqToSet(f.weeks) : w > 5 THEN NextNone(now)
  ELSE WomFrom(wom_weeks, now, forwards_to_dow(now, f.dow, checks))

DoyYield(f, day) ==
  NextSome(day, of_year(year_of_date(day) + f.years_apart))
DoyDay(f, now, this_year) ==
  IF this_year > now THEN DoyYield(f, this_year)
  ELSE DoyYield(f, with_moy_dom_saturating(
                     of_year(year_of_date(now) + f.years_apart), f.month, f.dom))
NextDoy(f, now) ==
  DoyDay(f, now, with_moy_dom_saturating(now, f.month, f.dom))

DateYield(now, day) ==
  IF day > now THEN NextSome(day, day) ELSE NextNone(day)
NextDate(f, now) ==
  DateYield(now, with_moy_dom_saturating(of_year(f.year), f.month, f.dom))

\* DayFilterDaysIter::next on iterator struct `it`
DayFilterDaysIterNext(it, checks) ==
  CASE it.day_filter.k = "Day"  -> NextDay(it.day_filter, it.day)
    [] it.day_filter.k = "Dow"  -> NextDow(it.day_filter, it.day, checks)
    [] it.day_filter.k = "Dows" -> NextDows(it.dows_days, it.day)
    [] it.day_filter.k = "Dom"  -> NextDom(it.day_filter, it.dom_days, it.day, checks)
    [] it.day_filter.k = "Wom"  -> NextWom(it.day_filter, it.wom_weeks, it.day, checks)
    [] it.day_filter.k = "Doy"  -> NextDoy(it.day_filter, it.day)
    [] it.day_filter.k = "Date" -> NextDate(it.day_filter, it.day)

(***************************************************************************)
(* util/sched.rs: ProgressTaskPeriodsIter.  next() returns a pair          *)
(* <<start, end>> as val.                                                  *)
(***************************************************************************)
ProgressTaskPeriodsIterNew(sched, start_day) ==
  [sched |-> sched, day |-> start_day]

\* Some((start, end)) with the cursor moved to end (sched.rs 303-304)
PeriodYield(now, start, end) ==
  IF IsSome(end) THEN NextSome(<<start, Unwrap(end)>>, Unwrap(end))
  ELSE NextPanic(now)

PeriodDays(s, now) ==
  PeriodYield(now, now, AddDays(now, s.num))

WeeksFrom(s, now, start) ==
  IF IsSome(start)
  THEN PeriodYield(now, Unwrap(start), AddDays(Unwrap(start), 7 * s.num))
  ELSE NextPanic(now)
WeeksStart(s, now, diff) ==
  IF ~IsSome(diff) THEN WeeksFrom(s, now, None)
  ELSE IF WeekdayOf(now) = s.start_day THEN WeeksFrom(s, now, Some(now))
  ELSE WeeksFrom(s, now, SubDays(now, Unwrap(diff)))
PeriodWeeks(s, now, checks) ==
  WeeksStart(s, now, SubU32Mod7(WeekdayOf(now), s.start_day, checks))

\* the re-saturated `end` of sched.rs 279-281 is a new binding that is
\* dropped at the end of its block: the pair keeps add_months' result
MonthsFrom(s, now, start) ==
  PeriodYield(now, start, Some(add_months(start, s.num)))
MonthsStart(s, now, now_dom) ==
  IF now_dom < s.start_day
  THEN MonthsFrom(s, now,
         with_dom_saturating(
           UnwrapOr(CheckedSubMonths(now, 1), NaiveDateMIN), s.start_day))
  ELSE MonthsFrom(s, now, UnwrapOr(WithDay(now, s.start_day), NaiveDateMIN))
PeriodMonths(s, now) ==
  MonthsStart(s, now, DayOf(now))

YearsOther(s, year) ==
  with_moy_dom_saturating(of_year(year), s.start_month, s.start_dom)
YearsFrom(s, now, start_this_year) ==
  IF now <= start_this_year
  THEN PeriodYield(now, start_this_year,
         Some(YearsOther(s, year_of_date(start_this_year) + 1)))
  ELSE PeriodYield(now, YearsOther(s, year_of_date(start_this_year) - 1),
         Some(start_this_year))
PeriodYears(s, now) ==
  YearsFrom(s, now, with_moy_dom_saturating(now, s.start_month, s.start_dom))

\* ProgressTaskPeriodsIter::next on iterator struct `it`
ProgressTaskPeriodsIterNext(it, checks) ==
  CASE it.sched.k = "Days"   -> PeriodDays(it.sched, it.day)
    [] it.sched.k = "Weeks"  -> PeriodWeeks(it.sched, it.day, checks)
    [] it.sched.k = "Months" -> PeriodMonths(it.sched, it.day)
    [] it.sched.k = "Years"  -> PeriodYears(it.sched, it.day)

(***************************************************************************)
(* Instants.  An OccDate is a number of ticks; the database keeps whole    *)
(* seconds (todb::occ_date is DateTime::timestamp).  A day of the model    *)
(* has SecsPerDay seconds of TicksPerSecond ticks.                         *)
(***************************************************************************)
TicksPerDay ==
  SecsPerDay * TicksPerSecond
\* NaiveDate::and_time(time).and_utc(), `time` in ticks since midnight
AndTime(day, time) ==
  day * TicksPerDay + time
\* DateTime::date_naive
DateNaive(t) ==
  t \div TicksPerDay
\* occgen.rs day_to_occ_date
day_to_occ_date(day) ==
  AndTime(day, 0)

\* db/sqlite/todb.rs occ_date and db/sqlite/fromdb.rs occ_date
todb_occ_date(t) ==
  t \div TicksPerSecond
fromdb_occ_date(epoch_s) ==
  epoch_s * TicksPerSecond

(***************************************************************************)
(* Object ids.  Outside the database an id is a string, inside it is an    *)
(* integer row id.                                                         *)
(***************************************************************************)
Digits ==
  <<"1", "2", "3", "4", "5", "6", "7", "8", "9">>
\* db/sqlite/fromdb.rs id: i64::to_string
fromdb_id(n) ==
  Digits[n]
\* db/sqlite/todb.rs id: str::parse, None when the string is no integer
todb_id(str) ==
  IF \E n \in 1..Len(Digits) : Digits[n] = str
  THEN Some(CHOOSE n \in 1..Len(Digits) : Digits[n] = str)
  ELSE None

(***************************************************************************)
(* The store: the three tables of db/sqlite.  An item row keeps the item   *)
(* and its only_occ_end column, an occurrence row its dates in seconds.    *)
(***************************************************************************)
EmptyStore ==
  [items |-> {}, occs |-> {}, configs |-> {}]

\* conn.last_insert_rowid() after an INSERT: one more than the largest row
\* id of the table
NextRowId(rows) ==
  IF rows = {} THEN 1 ELSE MaxOf({r.id : r \in rows}) + 1

\* db/sqlite/todb.rs item_only_occ_date
item_only_occ_date(sched) ==
  IF sched.k = "Event" /\ sched.days.k = "Date"
  THEN Some(todb_occ_date(AndTime(sched.initial_day, 0)))
  ELSE None

ItemRow(id, item) ==
  [id |-> id, item |-> item, only_occ_end |-> item_only_occ_date(item.sched)]
OccRow(id, item_id, occ) ==
  [id |-> id, item_id |-> item_id, active |-> occ.active,
   start_date |-> todb_occ_date(occ.start), end_date |-> todb_occ_date(occ.end),
   task_completion_progress |-> occ.task_completion_progress]
ConfigRow(id, scope, config) ==
  [id |-> id, scope |-> scope, config |-> config]

\* db/sqlite/fromdb.rs occ_data: the StoredOcc of a row
fromdb_occ(r) ==
  [id |-> fromdb_id(r.id),
   occ |-> [active |-> r.active,
            start |-> fromdb_occ_date(r.start_date),
            end |-> fromdb_occ_date(r.end_date),
            task_completion_progress |-> r.task_completion_progress]]

(***************************************************************************)
(* db/sqlite/write.rs: one statement each.  The result is                  *)
(* [ok, err, st, id]: st is the store after the statement, id the new      *)
(* row's id (an Option).                                                   *)
(***************************************************************************)
StmtOk(st, id) ==
  [ok |-> TRUE, err |-> "", st |-> st, id |-> id]
StmtErr(st, err) ==
  [ok |-> FALSE, err |-> err, st |-> st, id |-> None]

InsertItem(st, id, item) ==
  StmtOk([st EXCEPT !.items = @ \cup {ItemRow(id, item)}], Some(fromdb_id(id)))
create_item(st, item) ==
  InsertItem(st, NextRowId(st.items), item)

UpdateItemRow(st, dbid, item) ==
  IF ~IsSome(dbid) THEN StmtErr(st, "invalid_id")
  ELSE StmtOk([st EXCEPT !.items =
                 {IF r.id = Unwrap(dbid) THEN ItemRow(r.id, item) ELSE r : r \in @}],
              None)
update_item(st, stored_item) ==
  UpdateItemRow(st, todb_id(stored_item.id), stored_item.item)

DeleteItemRow(st, dbid) ==
  IF ~IsSome(dbid) THEN StmtErr(st, "invalid_id")
  ELSE StmtOk([st EXCEPT !.items = {r \in @ : r.id # Unwrap(dbid)}], None)
delete_item(st, id) ==
  DeleteItemRow(st, todb_id(id))

\* the id of an Item or Occ scope must parse (write.rs 79-80)
ScopeIdOk(scope) ==
  scope.k \in {"Item", "Occ"} => IsSome(todb_id(scope.id))

InsertConfig(st, id, stored_config) ==
  StmtOk([st EXCEPT !.configs =
            @ \cup {ConfigRow(id, stored_config.id, stored_config.config)}],
         Some(fromdb_id(id)))
set_config(st, stored_config) ==
  IF ~ScopeIdOk(stored_config.id) THEN StmtErr(st, "invalid_id")
  ELSE InsertConfig(st, NextRowId(st.configs), stored_config)

\* the statement names one parameter (write.rs 130-133) and is given five
\* (write.rs 134-139): rusqlite rejects a named parameter the statement does
\* not have, so the call fails for every scope
delete_config(st, scope) ==
  IF ~ScopeIdOk(scope) THEN StmtErr(st, "invalid_id")
  ELSE StmtErr(st, "store")

InsertOcc(st, id, item_dbid, occ) ==
  IF ~IsSome(item_dbid) THEN StmtErr(st, "invalid_id")
  ELSE StmtOk([st EXCEPT !.occs = @ \cup {OccRow(id, Unwrap(item_dbid), occ)}],
              Some(fromdb_id(id)))
create_occ(st, item_id, occ) ==
  InsertOcc(st, NextRowId(st.occs), todb_id(item_id), occ)

UpdateOccRow(st, dbid, occ) ==
  IF ~IsSome(dbid) THEN StmtErr(st, "invalid_id")
  ELSE StmtOk([st EXCEPT !.occs =
                 {IF r.id = Unwrap(dbid) THEN OccRow(r.id, r.item_id, occ) ELSE r :
                    r \in @}],
              None)
update_occ(st, stored_occ) ==
  UpdateOccRow(st, todb_id(stored_occ.id), stored_occ.occ)

DeleteOccRow(st, dbid) ==
  IF ~IsSome(dbid) THEN StmtErr(st, "invalid_id")
  ELSE StmtOk([st EXCEPT !.occs = {r \in @ : r.id # Unwrap(dbid)}], None)
delete_occ(st, id) ==
  DeleteOccRow(st, todb_id(id))

(***************************************************************************)
(* db/sqlite.rs: resolve_update_id, write_update and Db::write.            *)
(* An UpdateId is [t |-> "Id", id |-> string] or                           *)
(* [t |-> "Token", token |-> n]; ids_map is a function from the tokens     *)
(* created so far in this write to their ids.                              *)
(***************************************************************************)
IdOf(id) ==
  [t |-> "Id", id |-> id, token |-> 0]
TokenOf(token) ==
  [t |-> "Token", id |-> "", token |-> token]

\* a resolver that takes an unknown token for the first row
ResolveAnyToken(ids_map, id) ==
  IF id.t = "Id" THEN Some(id.id)
  ELSE IF id.token \in DOMAIN ids_map THEN Some(ids_map[id.token])
  ELSE Some("1")

resolve_update_id(ids_map, id) ==
  IF id.t = "Id" THEN Some(id.id)
  ELSE IF id.token \in DOMAIN ids_map THEN Some(ids_map[id.token])
  ELSE None

CreateOccResolved(st, item_id, occ) ==
  IF ~IsSome(item_id) THEN StmtErr(st, "invalid_token")
  ELSE create_occ(st, Unwrap(item_id), occ)

write_update(st, ids_map, update) ==
  CASE update.k = "CreateItem"   -> create_item(st, update.item)
    [] update.k = "UpdateItem"   -> update_item(st, update.item)
    [] update.k = "DeleteItem"   -> delete_item(st, update.id)
    [] update.k = "SetConfig"    -> set_config(st, update.config)
    [] update.k = "DeleteConfig" -> delete_config(st, update.id)
    [] update.k = "CreateOcc"    ->
         CreateOccResolved(st, resolve_update_id(ids_map, update.item_id),
                           update.occ)
    [] update.k = "UpdateOcc"    -> update_occ(st, update.occ)
    [] update.k = "DeleteOcc"    -> delete_occ(st, update.id)

\* ids_map.insert(token, id)
MapInsert(ids_map, token, id) ==
  [t \in DOMAIN ids_map \cup {token} |-> IF t = token THEN id ELSE ids_map[t]]
IsCreate(update) ==
  update.k \in {"CreateItem", "CreateOcc"}

\* a write that keeps what it did before the failing update
WriteErrKeepsPartial(st0, st, err, pos) ==
  [ok |-> FALSE, err |-> err, pos |-> pos, st |-> st, ids |-> <<>>]

WriteOk(st, ids_map, n) ==
  [ok |-> TRUE, err |-> "", pos |-> n, st |-> st, ids |-> ids_map]
\* the `?` returns before tx.commit(): the transaction st is dropped and
\* rolled back, the store is st0 as it was before the call
WriteErr(st0, st, err, pos) ==
  [ok |-> FALSE, err |-> err, pos |-> pos, st |-> st0, ids |-> <<>>]

\* Db::write.  st0 is the store when the transaction begins, st the store
\* within it.  fault = 0: the store works; fault = i: it fails statement i
\* of a batch whose ids and tokens were good so far; fault = Len(updates) + 1:
\* it fails the commit.  pos is the position that failed.
RECURSIVE WriteLoop(_, _, _, _, _, _)
WriteStep(st0, st, r, ids_map, updates, i, fault) ==
  IF ~r.ok THEN WriteErr(st0, st, r.err, i)
  ELSE IF fault = i THEN WriteErr(st0, st, "store", i)
  ELSE IF IsCreate(updates[i])
       THEN WriteLoop(st0, r.st, MapInsert(ids_map, updates[i].id_token, Unwrap(r.id)),
                      updates, i + 1, fault)
  ELSE WriteLoop(st0, r.st, ids_map, updates, i + 1, fault)
WriteLoop(st0, st, ids_map, updates, i, fault) ==
  IF i > Len(updates)
  THEN IF fault = i THEN WriteErr(st0, st, "store", i) ELSE WriteOk(st, ids_map, Len(updates))
  ELSE WriteStep(st0, st, write_update(st, ids_map, updates[i]), ids_map, updates, i,
                 fault)
DbWrite(st, updates, fault) ==
  WriteLoop(st, st, <<>>, updates, 1, fault)

(***************************************************************************)
(* util/occgen.rs.  A generator returns [kind, occs]: kind is "ok" when    *)
(* the call returns occs, "panic" when the schedule iterator panics and    *)
(* "hang" when the loop over it never ends.                                *)
(***************************************************************************)
\* an occurrence with its dates the wrong way round
NewOccReversed(start, end) ==
  [active |-> TRUE, start |-> end, end |-> start, task_completion_progress |-> 0]
new_occ(start, end) ==
  [active |-> TRUE, start |-> start, end |-> end, task_completion_progress |-> 0]

GenOk(occs) ==
  [kind |-> "ok", occs |-> occs]
GenFail(kind) ==
  [kind |-> kind, occs |-> <<>>]

\* EventOccGen::for_day; sched.time is an Option of the ticks since midnight
for_day(sched, day) ==
  new_occ(AndTime(day, UnwrapOr(sched.time, 0)), AndTime(day, UnwrapOr(sched.time, 0)))

\* the for loop of EventOccGen::generate_after.  An iterator that returns a
\* date without moving its cursor returns it forever: the loop hangs.
RECURSIVE EventAfterLoop(_, _, _, _, _)
EventAfterStep(sched, it, r, end_day, occs, checks) ==
  IF r.kind = "none" THEN GenOk(occs)
  ELSE IF r.kind # "some" THEN GenFail(r.kind)
  ELSE IF r.val > end_day THEN GenOk(Append(occs, for_day(sched, r.val)))
  ELSE IF r.day = it.day THEN GenFail("hang")
  ELSE EventAfterLoop(sched, [it EXCEPT !.day = r.day], end_day,
                      Append(occs, for_day(sched, r.val)), checks)
EventAfterLoop(sched, it, end_day, occs, checks) ==
  EventAfterStep(sched, it, DayFilterDaysIterNext(it, checks), end_day, occs, checks)

EventGenerateAfter(sched, occ, until, checks) ==
  IF DateNaive(occ.start) > DateNaive(until) THEN GenOk(<<>>)
  ELSE EventAfterLoop(sched,
                      DayFilterDaysIterNew(sched.days, DateNaive(occ.start) + 1),
                      DateNaive(until), <<>>, checks)

\* a generate_first that takes the first date after today
EventFirstStepAfterToday(sched, it, r, today, checks) ==
  IF r.kind = "none" THEN GenOk(<<>>)
  ELSE IF r.kind # "some" THEN GenFail(r.kind)
  ELSE IF r.val > today THEN GenOk(<<for_day(sched, r.val)>>)
  ELSE GenOk(<<for_day(sched, r.val + 1)>>)

\* the for loop of EventOccGen::generate_first
RECURSIVE EventFirstLoop(_, _, _, _)
EventFirstStep(sched, it, r, today, checks) ==
  IF r.kind = "none" THEN GenOk(<<>>)
  ELSE IF r.kind # "some" THEN GenFail(r.kind)
  ELSE IF r.val >= today THEN GenOk(<<for_day(sched, r.val)>>)
  ELSE IF r.day = it.day THEN GenFail("hang")
  ELSE EventFirstLoop(sched, [it EXCEPT !.day = r.day], today, checks)
EventFirstLoop(sched, it, today, checks) ==
  EventFirstStep(sched, it, DayFilterDaysIterNext(it, checks), today, checks)

EventGenerateFirst(sched, now, checks) ==
  EventFirstLoop(sched, DayFilterDaysIterNew(sched.days, sched.initial_day),
                 DateNaive(now), checks)

PeriodOcc(period) ==
  new_occ(day_to_occ_date(period[1]), day_to_occ_date(period[2]))

\* the for loop of ProgressTaskOccGen::generate_after
RECURSIVE ProgressAfterLoop(_, _, _, _)
ProgressAfterStep(it, r, end_day, occs, checks) ==
  IF r.kind = "none" THEN GenOk(occs)
  ELSE IF r.kind # "some" THEN GenFail(r.kind)
  ELSE IF r.val[2] > end_day THEN GenOk(Append(occs, PeriodOcc(r.val)))
  ELSE IF r.day = it.day THEN GenFail("hang")
  ELSE ProgressAfterLoop([it EXCEPT !.day = r.day], end_day,
                         Append(occs, PeriodOcc(r.val)), checks)
ProgressAfterLoop(it, end_day, occs, checks) ==
  ProgressAfterStep(it, ProgressTaskPeriodsIterNext(it, checks), end_day, occs, checks)

ProgressGenerateAfter(sched, occ, until, checks) ==
  IF DateNaive(occ.end) > DateNaive(until) THEN GenOk(<<>>)
  ELSE ProgressAfterLoop(ProgressTaskPeriodsIterNew(sched.periods, DateNaive(occ.end)),
                         DateNaive(until), <<>>, checks)

ProgressFirstOf(r) ==
  IF r.kind = "some" THEN GenOk(<<PeriodOcc(r.val)>>)
  ELSE IF r.kind = "none" THEN GenOk(<<>>)
  ELSE GenFail(r.kind)
ProgressGenerateFirst(sched, now, checks) ==
  ProgressFirstOf(ProgressTaskPeriodsIterNext(
                    ProgressTaskPeriodsIterNew(sched.periods, DateNaive(now)), checks))

\* a loop that stops at `until` instead of passing it
RECURSIVE DeadlineAfterLoopStrict(_, _, _, _)
DeadlineAfterLoopStrict(sched, start, until, occs) ==
  IF ~(start < until) THEN GenOk(occs)
  ELSE IF sched.duration = 0 THEN GenFail("hang")
  ELSE DeadlineAfterLoopStrict(sched, start + sched.duration, until,
                               Append(occs, new_occ(start, start + sched.duration)))

\* the while loop of DeadlineTaskOccGen::generate_after; with a zero
\* duration `start` never passes `until`
RECURSIVE DeadlineAfterLoop(_, _, _, _)
DeadlineAfterLoop(sched, start, until, occs) ==
  IF ~(start <= until) THEN GenOk(occs)
  ELSE IF sched.duration = 0 THEN GenFail("hang")
  ELSE DeadlineAfterLoop(sched, start + sched.duration, until,
                         Append(occs, new_occ(start, start + sched.duration)))
DeadlineGenerateAfter(sched, occ, until) ==
  DeadlineAfterLoop(sched, occ.end, until, <<>>)
DeadlineGenerateFirst(sched, now) ==
  GenOk(<<new_occ(now, now + sched.duration)>>)

\* the OccGen chosen for the schedule (util.rs 39-45)
generate_after(sched, occ, until, checks) ==
  CASE sched.k = "Event"        -> EventGenerateAfter(sched, occ, until, checks)
    [] sched.k = "ProgressTask" -> ProgressGenerateAfter(sched, occ, until, checks)
    [] sched.k = "DeadlineTask" -> DeadlineGenerateAfter(sched, occ, until)
generate_first(sched, now, checks) ==
  CASE sched.k = "Event"        -> EventGenerateFirst(sched, now, checks)
    [] sched.k = "ProgressTask" -> ProgressGenerateFirst(sched, now, checks)
    [] sched.k = "DeadlineTask" -> DeadlineGenerateFirst(sched, now)

(***************************************************************************)
(* util.rs: occ_is_current and get_items_current_occ.                      *)
(***************************************************************************)
occ_is_current(date, sched, occ) ==
  IF sched.k = "Event" THEN occ.start >= date
  ELSE occ.start <= date /\ occ.end >= date

\* db/sqlite/fromdb.rs item: the StoredItem of a row
fromdb_item(r) ==
  [id |-> fromdb_id(r.id), item |-> r.item]

\* Db::find_occs(&[id], None, None, Desc, 1): the rows the query may return
\* for the item, those of the largest start_date (SQLite picks one when
\* several tie); the empty set when the item has no occurrence
LatestRows(st, dbid) ==
  {r \in st.occs :
     /\ r.item_id = dbid
     /\ \A q \in st.occs : q.item_id = dbid => q.start_date <= r.start_date}
\* one choice of the query's answer for each item of the list
LatestChoices(st, items) ==
  {f \in [1..Len(items) -> {Some(r) : r \in st.occs} \cup {None}] :
     \A i \in 1..Len(items) :
       IF IsSome(todb_id(items[i].id)) /\ LatestRows(st, Unwrap(todb_id(items[i].id))) # {}
       THEN f[i] # None /\ Unwrap(f[i]) \in LatestRows(st, Unwrap(todb_id(items[i].id)))
       ELSE f[i] = None}

\* item_new_occs (util.rs 51-54)
ItemNewOccs(sched, latest, date, checks) ==
  IF latest = None THEN generate_first(sched, date, checks)
  ELSE generate_after(sched, fromdb_occ(Unwrap(latest)).occ, date, checks)

\* sort_by_key(|occ| occ.start), a stable insertion sort
RECURSIVE SortByStart(_, _, _)
InsertByStart(sorted, occ) ==
  SelectSeq(sorted, LAMBDA o : o.start <= occ.start) \o <<occ>>
    \o SelectSeq(sorted, LAMBDA o : o.start > occ.start)
SortByStart(occs, i, sorted) ==
  IF i > Len(occs) THEN sorted
  ELSE SortByStart(occs, i + 1, InsertByStart(sorted, occs[i]))

\* the loop over `items` (util.rs 38-71).  acc holds new_occs in insertion
\* order, items_last_token, items_last_occ and the counter behind
\* DbUpdate::id_token, which hands out the counter's value and adds one.
ScanInit(token) ==
  [kind |-> "ok", new_occs |-> <<>>, items_last_token |-> <<>>,
   items_last_occ |-> <<>>, token |-> token]
ScanNew(acc, item, occs) ==
  [acc EXCEPT
     !.new_occs = @ \o [j \in 1..Len(occs) |->
                          [id_token |-> acc.token + j - 1,
                           item_id |-> item.id, occ |-> occs[j]]],
     !.items_last_token =
        Append(@, [item |-> item,
                   id_token |-> acc.token + Len(occs) - 1]),
     !.token = acc.token + Len(occs)]
ScanItem(acc, item, latest, gen) ==
  IF gen.kind # "ok" THEN [acc EXCEPT !.kind = gen.kind]
  ELSE IF gen.occs # <<>> THEN ScanNew(acc, item, SortByStart(gen.occs, 1, <<>>))
  ELSE IF latest # None
       THEN [acc EXCEPT !.items_last_occ =
                          Append(@, [item |-> item, occ |-> fromdb_occ(Unwrap(latest))])]
  ELSE acc
RECURSIVE ScanItems(_, _, _, _, _, _)
ScanItems(acc, items, latest, i, date, checks) ==
  IF i > Len(items) \/ acc.kind # "ok" THEN acc
  ELSE IF ~IsSome(todb_id(items[i].id)) THEN [acc EXCEPT !.kind = "invalid_id"]
  ELSE ScanItems(ScanItem(acc, items[i], latest[i],
                          ItemNewOccs(items[i].item.sched, latest[i], date, checks)),
                 items, latest, i + 1, date, checks)

\* the order in which the HashMap new_occs is iterated (util.rs 74)
Orders(n) ==
  {p \in [1..n -> 1..n] : \A i, j \in 1..n : p[i] = p[j] => i = j}
\* the write batch (util.rs 73-77)
CreateOcc(id_token, item_id, occ) ==
  [k |-> "CreateOcc", id_token |-> id_token, item_id |-> item_id, occ |-> occ]
OccUpdates(new_occs, order) ==
  [i \in 1..Len(new_occs) |->
     CreateOcc(new_occs[order[i]].id_token, IdOf(new_occs[order[i]].item_id),
               new_occs[order[i]].occ)]

\* util.rs 80-86: the candidates of the items that got new occurrences
NewOccOf(new_occs, id_token) ==
  (CHOOSE n \in SeqToSet(new_occs) : n.id_token = id_token).occ
LastNew(acc, ids) ==
  [i \in 1..Len(acc.items_last_token) |->
     [item |-> acc.items_last_token[i].item,
      occ |-> [id |-> ids[acc.items_last_token[i].id_token],
               occ |-> NewOccOf(acc.new_occs, acc.items_last_token[i].id_token)]]]
\* util.rs 88-91
CurrentOf(date, candidates) ==
  SelectSeq(candidates, LAMBDA c : occ_is_current(date, c.item.item.sched, c.occ.occ))

Ymd(y, m, d) ==
  DaysFromCivil(y, m, d)

StartDays ==
  {Ymd(2024, 1, 1) + i : i \in 0..(NumStartDays - 1)}

\* days_apart, weeks_apart, months_apart, years_apart and num
Strides ==
  1..MaxStride

\* weekdays by number_from_monday, months by number_from_month
DayFilters ==
  {[k |-> "Day", days_apart |-> n] : n \in Strides}
  \cup {[k |-> "Dow", day |-> w, weeks_apart |-> n] : w \in {1, 2, 7}, n \in Strides}
  \cup {[k |-> "Dows", days |-> ds] : ds \in {<<>>, <<1>>, <<6, 2>>}}
  \cup {[k |-> "Dom", days |-> ds, months_apart |-> n] :
          ds \in {<<>>, <<31>>, <<31, 15>>, <<30, 31>>, <<28, 31>>, <<5>>},
          n \in Strides}
  \cup {[k |-> "Wom", dow |-> w, weeks |-> ws, months_apart |-> n] :
          w \in {2}, ws \in {<<>>, <<1>>, <<2, 4>>, <<5>>, <<6>>, <<0>>},
          n \in Strides}
  \cup {[k |-> "Doy", dom |-> d, month |-> m, years_apart |-> n] :
          d \in {1, 29}, m \in {1, 2, 6}, n \in Strides}
  \cup {[k |-> "Date", dom |-> d, month |-> m, year |-> 2024] :
          d \in {1, 31}, m \in {1, 2}}

ProgressTaskScheds ==
  {[k |-> "Days", num |-> n] : n \in Strides}
  \cup {[k |-> "Weeks", num |-> n, start_day |-> w] : n \in Strides, w \in {1, 3, 7}}
  \cup {[k |-> "Months", num |-> n, start_day |-> d] :
          n \in Strides, d \in {1, 15, 29, 31}}
  \cup {[k |-> "Years", num |-> n, start_month |-> m, start_dom |-> d] :
          n \in Strides, m \in {2, 6}, d \in {1, 29}}

(***************************************************************************)
(* SpecIter: an iterator is created by new() and stepped by next().        *)
(***************************************************************************)
IterInit ==
  /\ overflow_checks \in BOOLEAN
  /\ it_start \in StartDays
  /\ \/ /\ it_kind = "days"
        /\ \E f \in DayFilters : it_iter = DayFilterDaysIterNew(f, it_start)
     \/ /\ it_kind = "periods"
        /\ \E s \in ProgressTaskScheds :
             it_iter = ProgressTaskPeriodsIterNew(s, it_start)
  /\ it_out = <<>>
  /\ it_status = "running"
  /\ store = EmptyStore
  /\ update_token = 0
  /\ request = None
  /\ calls = <<>>

StatusOf(r) ==
  CASE r.kind = "some"  -> "running"
    [] r.kind = "none"  -> "ended"
    [] r.kind = "panic" -> "panicked"
    [] r.kind = "hang"  -> "hung"

IterStep(r) ==
  /\ it_iter' = [it_iter EXCEPT !.day = r.day]
  /\ it_out' = IF r.kind = "some" THEN Append(it_out, r.val) ELSE it_out
  /\ it_status' = StatusOf(r)
  /\ UNCHANGED <<overflow_checks, it_kind, it_start, store, update_token, request, calls>>

DayFilterNext ==
  /\ it_kind = "days"
  /\ it_status = "running"
  /\ Len(it_out) < MaxYields
  /\ IterStep(DayFilterDaysIterNext(it_iter, overflow_checks))

PeriodsNext ==
  /\ it_kind = "periods"
  /\ it_status = "running"
  /\ Len(it_out) < MaxYields
  /\ IterStep(ProgressTaskPeriodsIterNext(it_iter, overflow_checks))

IterNext ==
  \/ DayFilterNext
  \/ PeriodsNext

SpecIter ==
  IterInit /\ [][IterNext]_vars

(***************************************************************************)
(* SpecWrite: a caller hands a batch of updates to Db::write (Submit),     *)
(* the store executes it (Write).  `request` is the call in flight with    *)
(* the fault the store will show; `calls` keeps the result of the latest   *)
(* call.                                                                   *)
(***************************************************************************)
IdleIter ==
  /\ it_kind = "idle"
  /\ it_iter = <<>>
  /\ it_start = 0
  /\ it_out = <<>>
  /\ it_status = "idle"

May(d) ==
  Ymd(2024, 5, d)
Jan(d) ==
  Ymd(2024, 1, d)
Days(n) ==
  n * TicksPerDay

DeadlineItem(days) ==
  [active |-> TRUE, sched |-> [k |-> "DeadlineTask", duration |-> Days(days)]]
SomeOcc(progress) ==
  [active |-> TRUE, start |-> AndTime(May(1), 0), end |-> AndTime(May(4), 0),
   task_completion_progress |-> progress]
ScopeAll ==
  [k |-> "All", id |-> ""]

\* the values of DbUpdate (db.rs 86-97)
CreateItem(id_token, item) ==
  [k |-> "CreateItem", id_token |-> id_token, item |-> item]
UpdateItem(id, item) ==
  [k |-> "UpdateItem", item |-> [id |-> id, item |-> item]]
DeleteItem(id) ==
  [k |-> "DeleteItem", id |-> id]
SetConfig(scope, config) ==
  [k |-> "SetConfig", config |-> [id |-> scope, config |-> config]]
DeleteConfig(scope) ==
  [k |-> "DeleteConfig", id |-> scope]
UpdateOcc(id, occ) ==
  [k |-> "UpdateOcc", occ |-> [id |-> id, occ |-> occ]]
DeleteOcc(id) ==
  [k |-> "DeleteOcc", id |-> id]

\* "x" is an id that is no integer
Updates ==
  {CreateItem(0, DeadlineItem(3)),
   CreateOcc(1, TokenOf(0), SomeOcc(0)), CreateOcc(0, IdOf("1"), SomeOcc(0)),
   UpdateItem("1", DeadlineItem(5)), DeleteItem("1"), DeleteItem("x"),
   SetConfig(ScopeAll, "c"), DeleteConfig(ScopeAll),
   UpdateOcc("1", SomeOcc(1)), DeleteOcc("1")}
Batches ==
  UNION {[1..n -> Updates] : n \in 0..MaxBatch}

Rows(st) ==
  Cardinality(st.items) + Cardinality(st.occs) + Cardinality(st.configs)

WriteInit ==
  /\ overflow_checks = TRUE
  /\ IdleIter
  /\ store = EmptyStore
  /\ update_token = 0
  /\ request = None
  /\ calls = <<>>

Submit ==
  /\ request = None
  /\ Rows(store) < MaxRows
  /\ \E updates \in Batches, fault \in 0..(MaxBatch + 1) :
       /\ fault <= Len(updates) + 1
       /\ request' = Some([updates |-> updates, fault |-> fault])
  /\ UNCHANGED <<overflow_checks, it_kind, it_iter, it_start, it_out, it_status,
                 store, update_token, calls>>

WriteDone(w) ==
  /\ store' = w.st
  /\ calls' = <<[op |-> "write", ok |-> w.ok, err |-> w.err, pos |-> w.pos,
                 ids |-> w.ids]>>
  /\ request' = None
  /\ UNCHANGED <<overflow_checks, it_kind, it_iter, it_start, it_out, it_status,
                 update_token>>
Write ==
  /\ request # None
  /\ WriteDone(DbWrite(store, Unwrap(request).updates, Unwrap(request).fault))

WriteNext ==
  \/ Submit
  \/ Write

SpecWrite ==
  WriteInit /\ [][WriteNext]_vars

(***************************************************************************)
(* SpecOcc: one item is created, then get_items_current_occ is called for  *)
(* the stored items at reference instants around the item's start.         *)
(***************************************************************************)
EventSched(initial_day, days, time) ==
  [k |-> "Event", initial_day |-> initial_day, days |-> days, time |-> time]
ProgressSched(periods) ==
  [k |-> "ProgressTask", periods |-> periods]

\* 09:00, a time of day after midnight that is a whole second
NineAM ==
  TicksPerSecond

Scheds ==
  {EventSched(Jan(2), [k |-> "Dow", day |-> 2, weeks_apart |-> 2], Some(NineAM)),
   EventSched(Jan(3), [k |-> "Dow", day |-> 2, weeks_apart |-> 1], None),
   EventSched(Jan(9), [k |-> "Day", days_apart |-> 1], None),
   EventSched(Jan(9), [k |-> "Day", days_apart |-> 2], Some(NineAM)),
   EventSched(Jan(1), [k |-> "Date", dom |-> 10, month |-> 1, year |-> 2024], None),
   EventSched(Jan(1), [k |-> "Date", dom |-> 1, month |-> 1, year |-> 2024], None),
   EventSched(Jan(9), [k |-> "Dows", days |-> <<2, 4>>], Some(NineAM)),
   ProgressSched([k |-> "Days", num |-> 2]),
   ProgressSched([k |-> "Weeks", num |-> 1, start_day |-> 1]),
   ProgressSched([k |-> "Months", num |-> 1, start_day |-> 1]),
   [k |-> "DeadlineTask", duration |-> Days(3)],
   [k |-> "DeadlineTask", duration |-> Days(5)]}

RefDays(sched) ==
  IF sched.k = "DeadlineTask" THEN {May(1), May(10)} ELSE {Jan(9), Jan(10), Jan(11)}
\* midnight, 09:00 and the last tick of the day
RefTimes ==
  {0, NineAM, TicksPerDay - 1}
RefInstants(st) ==
  UNION {{AndTime(d, t) : d \in RefDays(r.item.sched), t \in RefTimes} : r \in st.items}

\* the stored items in the order of their ids
RECURSIVE StoredItems(_)
StoredItems(rows) ==
  IF rows = {} THEN <<>>
  ELSE <<fromdb_item(CHOOSE r \in rows : r.id = MinOf({q.id : q \in rows}))>>
         \o StoredItems({r \in rows : r.id # MinOf({q.id : q \in rows})})

OccInit ==
  /\ overflow_checks \in BOOLEAN
  /\ IdleIter
  /\ store = EmptyStore
  /\ update_token = 0
  /\ request = None
  /\ calls = <<>>

AddItemDone(w) ==
  /\ w.ok
  /\ store' = w.st
  /\ update_token' = update_token + 1
  /\ UNCHANGED <<overflow_checks, it_kind, it_iter, it_start, it_out, it_status,
                 request, calls>>
AddItem ==
  /\ store.items = {}
  /\ \E sched \in Scheds :
       AddItemDone(DbWrite(store,
                           <<CreateItem(update_token,
                                        [active |-> TRUE, sched |-> sched])>>, 0))

\* the call is over: what it answered, what it wrote
CurrentOccEnd(date, acc, st, kind, created, result) ==
  /\ store' = st
  /\ update_token' = acc.token
  /\ calls' = Append(calls, [op |-> "current", date |-> date, kind |-> kind,
                             pre |-> store, post |-> st, created |-> created,
                             result |-> result])
  /\ UNCHANGED <<overflow_checks, it_kind, it_iter, it_start, it_out, it_status,
                 request>>
CurrentOccWritten(date, acc, updates, w) ==
  IF w.ok
  THEN CurrentOccEnd(date, acc, w.st, "ok", updates,
                     CurrentOf(date, acc.items_last_occ \o LastNew(acc, w.ids)))
  ELSE CurrentOccEnd(date, acc, w.st, w.err, <<>>, <<>>)
CurrentOccBatch(date, acc, updates) ==
  \E fault \in 0..(Len(updates) + 1) :
    CurrentOccWritten(date, acc, updates, DbWrite(store, updates, fault))
CurrentOccScanned(date, acc) ==
  IF acc.kind # "ok" THEN CurrentOccEnd(date, acc, store, acc.kind, <<>>, <<>>)
  ELSE \E order \in Orders(Len(acc.new_occs)) :
         CurrentOccBatch(date, acc, OccUpdates(acc.new_occs, order))
CurrentOccOf(date, items) ==
  \E latest \in LatestChoices(store, items) :
    CurrentOccScanned(date, ScanItems(ScanInit(update_token), items, latest, 1, date,
                                      overflow_checks))
\* get_items_current_occ(db, date, items) for the stored items
GetItemsCurrentOcc ==
  /\ store.items # {}
  /\ Len(calls) < MaxCalls
  /\ \E date \in RefInstants(store) : CurrentOccOf(date, StoredItems(store.items))

OccNext ==
  \/ AddItem
  \/ GetItemsCurrentOcc

SpecOcc ==
  OccInit /\ [][OccNext]_vars

(***************************************************************************)
(* util/config.rs.  A Config is [occ_alert, task_completion_conf] with     *)
(* Option fields, a ConfigId is [k, id], a StoredConfig is [id, config]    *)
(* and a ResolvedConfig is [id, scope_config, resolved_config, parent],    *)
(* parent being an Option of a ResolvedConfig.                             *)
(***************************************************************************)
\* Option::or
OptionOr(a, b) ==
  IF IsSome(a) THEN a ELSE b

TaskCompletionConfig(total, unit, excess_past, excess_future) ==
  [total |-> total, unit |-> unit, excess_past |-> excess_past,
   excess_future |-> excess_future]
Config(occ_alert, task_completion_conf) ==
  [occ_alert |-> occ_alert, task_completion_conf |-> task_completion_conf]

ConfigIdType(type_) ==
  [k |-> "Type", id |-> type_]
ConfigIdCategory(cat) ==
  [k |-> "Category", id |-> cat]
ConfigIdItem(id) ==
  [k |-> "Item", id |-> id]
ConfigIdOcc(id) ==
  [k |-> "Occ", id |-> id]

build_config_ids_all ==
  <<ScopeAll>>
build_config_ids_type(type_) ==
  Append(build_config_ids_all, ConfigIdType(type_))
build_config_ids_category(item) ==
  IF IsSome(item.category)
  THEN Append(build_config_ids_type(item.type_), ConfigIdCategory(Unwrap(item.category)))
  ELSE build_config_ids_type(item.type_)
build_config_ids_item(stored_item) ==
  Append(build_config_ids_category(stored_item.item), ConfigIdItem(stored_item.id))
build_config_ids_occ(stored_item, stored_occ) ==
  Append(build_config_ids_item(stored_item), ConfigIdOcc(stored_occ.id))

\* a merge in which the parent's value wins
ResolveParentFirst(parent, child) ==
  Config(OptionOr(parent.occ_alert, child.occ_alert),
         TaskCompletionConfig(
           OptionOr(parent.task_completion_conf.total, child.task_completion_conf.total),
           OptionOr(parent.task_completion_conf.unit, child.task_completion_conf.unit),
           OptionOr(parent.task_completion_conf.excess_past,
                    child.task_completion_conf.excess_past),
           OptionOr(parent.task_completion_conf.excess_future,
                    child.task_completion_conf.excess_future)))

resolve_config_direct(parent, child) ==
  Config(OptionOr(child.occ_alert, parent.occ_alert),
         TaskCompletionConfig(
           OptionOr(child.task_completion_conf.total, parent.task_completion_conf.total),
           OptionOr(child.task_completion_conf.unit, parent.task_completion_conf.unit),
           OptionOr(child.task_completion_conf.excess_past,
                    parent.task_completion_conf.excess_past),
           OptionOr(child.task_completion_conf.excess_future,
                    parent.task_completion_conf.excess_future)))

ResolvedConfig(id, scope_config, resolved_config, parent) ==
  [id |-> id, scope_config |-> scope_config, resolved_config |-> resolved_config,
   parent |-> parent]

\* the for loop of resolve_config: it runs over every element of configs,
\* the first included
RECURSIVE ResolveLoop(_, _, _)
ResolveLoop(configs, i, resolved) ==
  IF i > Len(configs) THEN resolved
  ELSE ResolveLoop(configs, i + 1,
         ResolvedConfig(configs[i].id, configs[i].config,
                        resolve_config_direct(resolved.resolved_config, configs[i].config),
                        Some(resolved)))
resolve_config(configs) ==
  IF configs = <<>> THEN None
  ELSE Some(ResolveLoop(configs, 1,
              ResolvedConfig(configs[1].id, configs[1].config, configs[1].config, None)))

\* db/sqlite/fromdb.rs config: the StoredConfig of a row; the id of an Item
\* or Occ scope is kept as an integer
fromdb_config(r) ==
  [id |-> IF r.scope.k \in {"Item", "Occ"}
          THEN [k |-> r.scope.k, id |-> fromdb_id(Unwrap(todb_id(r.scope.id)))]
          ELSE r.scope,
   config |-> r.config]

\* db/sqlite/read.rs get_configs for the set `ids`.  The four SELECTs that
\* use :types, :cats, :item_ids and :occ_ids are all added when `types` is
\* not empty and none of them otherwise, while the four parameters are always
\* bound: without a Type id the statement lacks them and the query fails.
ConfigsOk(configs) ==
  [kind |-> "ok", configs |-> configs]
ConfigsErr(err) ==
  [kind |-> err, configs |-> {}]
get_configs(st, ids) ==
  IF \E id \in ids : ~ScopeIdOk(id) THEN ConfigsErr("invalid_id")
  ELSE IF ~\E id \in ids : id.k = "Type" THEN ConfigsErr("store")
  ELSE ConfigsOk({c \in {fromdb_config(r) : r \in st.configs} : c.id \in ids})

\* ids.iter().flat_map(|id| config_by_id.remove(id)): the configs of the map
\* for ids, in the order of ids
FoundIds(config_by_id, ids) ==
  SelectSeq(ids, LAMBDA id : \E c \in config_by_id : c.id = id)
TakeConfigs(config_by_id, found) ==
  [i \in 1..Len(found) |-> CHOOSE c \in config_by_id : c.id = found[i]]
RemoveConfigs(config_by_id, ids) ==
  {c \in config_by_id : ~\E i \in 1..Len(ids) : ids[i] = c.id}

\* the second flat_map of get_objects_configs: out holds the pairs
\* [obj, config] of the objects that have a resolved config
RECURSIVE DispatchLoop(_, _, _, _)
DispatchOne(ids_by_obj, i, config_by_id, out, rc) ==
  DispatchLoop(ids_by_obj, i + 1, RemoveConfigs(config_by_id, ids_by_obj[i].ids),
               IF IsSome(rc)
               THEN Append(out, [obj |-> ids_by_obj[i].obj, config |-> Unwrap(rc)])
               ELSE out)
DispatchLoop(ids_by_obj, i, config_by_id, out) ==
  IF i > Len(ids_by_obj) THEN out
  ELSE DispatchOne(ids_by_obj, i, config_by_id, out,
         resolve_config(TakeConfigs(config_by_id,
                                    FoundIds(config_by_id, ids_by_obj[i].ids))))

\* all_ids: the ids of every object, collected in a HashSet
AllIds(ids_by_obj) ==
  UNION {SeqToSet(ids_by_obj[i].ids) : i \in 1..Len(ids_by_obj)}
\* [kind, queries, out]: queries are the get_configs calls made
ObjectsConfigs(ids_by_obj, all_ids, got) ==
  [kind |-> got.kind, queries |-> <<all_ids>>,
   out |-> IF got.kind = "ok" THEN DispatchLoop(ids_by_obj, 1, got.configs, <<>>)
           ELSE <<>>]
get_objects_configs(st, ids_by_obj) ==
  ObjectsConfigs(ids_by_obj, AllIds(ids_by_obj), get_configs(st, AllIds(ids_by_obj)))

get_items_configs(st, items) ==
  get_objects_configs(st,
    [i \in 1..Len(items) |-> [obj |-> items[i], ids |-> build_config_ids_item(items[i])]])
\* occs is a sequence of pairs <<item, occ>>
get_occs_configs(st, occs) ==
  get_objects_configs(st,
    [i \in 1..Len(occs) |->
       [obj |-> occs[i][2], ids |-> build_config_ids_occ(occs[i][1], occs[i][2])]])

(***************************************************************************)
(* SpecConfig: the configs table holds one config for some of the scopes   *)
(* of two items and two occurrences; callers resolve lists of stored       *)
(* configs and look up the configs of batches of items and occurrences.    *)
(* `calls` keeps the call made.                                            *)
(***************************************************************************)
NoCompletion ==
  TaskCompletionConfig(None, None, None, None)
\* the config stored for each scope, parent scopes first
ConfigPool ==
  <<[id |-> ScopeAll, config |-> Config(Some(1), NoCompletion)],
    [id |-> ConfigIdType("ProgressTask"),
     config |-> Config(None, TaskCompletionConfig(Some(10), None, None, None))],
    [id |-> ConfigIdCategory("c"),
     config |-> Config(None, TaskCompletionConfig(Some(5), None, Some(7), None))],
    [id |-> ConfigIdItem("1"),
     config |-> Config(None, TaskCompletionConfig(None, Some("km"), None, None))],
    [id |-> ConfigIdItem("2"), config |-> Config(Some(2), NoCompletion)],
    [id |-> ConfigIdOcc("1"),
     config |-> Config(None, TaskCompletionConfig(None, None, None, Some(2)))],
    [id |-> ConfigIdOcc("2"), config |-> Config(None, NoCompletion)]>>

ConfigItem(id, type_, category) ==
  [id |-> id, item |-> [type_ |-> type_, category |-> category]]
ConfigItems ==
  {ConfigItem("1", "ProgressTask", Some("c")), ConfigItem("2", "ProgressTask", None)}
ConfigOcc(id) ==
  [id |-> id, occ |-> SomeOcc(0)]
ConfigOccs ==
  {<<ConfigItem("1", "ProgressTask", Some("c")), ConfigOcc("1")>>,
   <<ConfigItem("1", "ProgressTask", Some("c")), ConfigOcc("2")>>}

\* lists of at most n elements of S
ListsOf(S, n) ==
  UNION {[1..k -> S] : k \in 0..n}

ConfigInit ==
  /\ overflow_checks = TRUE
  /\ IdleIter
  /\ \E stored \in SUBSET (1..Len(ConfigPool)) :
       store = [EmptyStore EXCEPT
                  !.configs = {ConfigRow(i, ConfigPool[i].id, ConfigPool[i].config) :
                                 i \in stored}]
  /\ update_token = 0
  /\ request = None
  /\ calls = <<>>

\* the lookups leave the store as it is: one call per behaviour shows them all
ConfigCall(c) ==
  /\ calls = <<>>
  /\ calls' = <<c>>
  /\ UNCHANGED <<overflow_checks, it_kind, it_iter, it_start, it_out, it_status,
                 store, update_token, request>>

\* resolve_config(configs) for a list of stored configs
ResolveConfig ==
  \E configs \in ListsOf({fromdb_config(r) : r \in store.configs}, MaxChain) :
    ConfigCall([op |-> "resolve_config", configs |-> configs,
                result |-> resolve_config(configs)])

\* get_items_configs(db, items)
GetItemsConfigs ==
  \E items \in ListsOf(ConfigItems, MaxObjects) :
    ConfigCall([op |-> "get_items_configs", objects |-> items,
                result |-> get_items_configs(store, items)])

\* get_occs_configs(db, occs)
GetOccsConfigs ==
  \E occs \in ListsOf(ConfigOccs, MaxObjects) :
    ConfigCall([op |-> "get_occs_configs", objects |-> occs,
                result |-> get_occs_configs(store, occs)])

\* the scopes asked of get_configs: one of each kind
ConfigScopes ==
  {ScopeAll, ConfigIdType("ProgressTask"), ConfigIdCategory("c"), ConfigIdItem("1"),
   ConfigIdOcc("1")}
\* Db::get_configs(ids)
GetConfigs ==
  \E ids \in SUBSET ConfigScopes :
    ConfigCall([op |-> "get_configs", ids |-> ids, result |-> get_configs(store, ids)])

ConfigNext ==
  \/ ResolveConfig
  \/ GetItemsConfigs
  \/ GetOccsConfigs
  \/ GetConfigs

SpecConfig ==
  ConfigInit /\ [][ConfigNext]_vars

(***************************************************************************)
(* util/progress.rs.  A u32 is kept as the integer nearest to zero that is *)
(* congruent to it modulo 2^32: 2^32 - 7 is kept as -7.  Sums and          *)
(* differences of such values are exact modulo 2^32; a checked build       *)
(* panics where the u32 operation overflows (None).                        *)
(***************************************************************************)
\* a < b as u32 values
U32Lt(a, b) ==
  IF (a < 0) = (b < 0) THEN a < b ELSE b < 0
U32Min(a, b) ==
  IF U32Lt(b, a) THEN b ELSE a
U32Sub(a, b, checks) ==
  IF checks /\ U32Lt(a, b) THEN None ELSE Some(a - b)
U32Add(a, b, checks) ==
  IF checks /\ ((a < 0 /\ b < 0) \/ ((a < 0) # (b < 0) /\ a + b >= 0)) THEN None
  ELSE Some(a + b)

TaskProgress(progress, total, donated_excess, received_excess) ==
  [progress |-> progress, total |-> total, donated_excess |-> donated_excess,
   received_excess |-> received_excess]

\* types.rs opt_duration_to_chrono
opt_duration_to_chrono(duration) ==
  UnwrapOr(duration, 0)

\* transfer_progress returns the new excess and updates recv_prog_detail:
\* [kind, excess, recv, transfer]; donated_excess is left as it is
TransferOk(excess, recv, transfer) ==
  [kind |-> "ok", excess |-> excess - transfer,
   recv |-> [recv EXCEPT !.received_excess = @ + transfer], transfer |-> transfer]
TransferPanic(excess, recv) ==
  [kind |-> "panic", excess |-> excess, recv |-> recv, transfer |-> 0]
\* recv_prog_detail.received_excess += transfer
TransferAdd(excess, recv, transfer, sum) ==
  IF ~IsSome(sum) THEN TransferPanic(excess, recv)
  ELSE TransferOk(excess, recv, transfer)
\* needed = (total + received_excess) - progress
TransferNeeded(excess, recv, needed, checks) ==
  IF ~IsSome(needed) THEN TransferPanic(excess, recv)
  ELSE TransferAdd(excess, recv, U32Min(Unwrap(needed), excess),
                   U32Add(recv.received_excess, U32Min(Unwrap(needed), excess), checks))
TransferSum(excess, recv, sum, checks) ==
  IF ~IsSome(sum) THEN TransferPanic(excess, recv)
  ELSE TransferNeeded(excess, recv, U32Sub(Unwrap(sum), recv.progress, checks), checks)
transfer_progress(excess, recv_prog_detail, checks) ==
  TransferSum(excess, recv_prog_detail,
              U32Add(recv_prog_detail.total, recv_prog_detail.received_excess, checks),
              checks)

\* occs is a sequence of pairs <<occ, config>>, config a ResolvedConfig
CompletionOf(occs, i) ==
  occs[i][2].resolved_config.task_completion_conf
\* prog_detail of occurrence i (progress.rs 78-83)
ProgDetail(occs, i) ==
  TaskProgress(occs[i][1].task_completion_progress,
               UnwrapOr(CompletionOf(occs, i).total, 1), 0, 0)
\* occs_excess of occurrence i (progress.rs 84-85), None when it panics
OccExcess(occs, i, checks) ==
  U32Sub(occs[i][1].task_completion_progress,
         UnwrapOr(CompletionOf(occs, i).total, 1), checks)

excess_past_min(occs, i) ==
  occs[i][1].start - opt_duration_to_chrono(CompletionOf(occs, i).excess_past)
excess_future_max(occs, i) ==
  occs[i][1].end + opt_duration_to_chrono(CompletionOf(occs, i).excess_future)

Donation(recv, donor, dist) ==
  [recv |-> recv, donor |-> donor, dist |-> dist]
\* the inner loop's body for recipient i and donor j (progress.rs 91-105):
\* the donations it pushes.  Both arms compare with excess_past_min.
DonationsOf(occs, i, j) ==
  IF occs[j][1] = occs[i][1] THEN <<>>
  ELSE IF occs[j][1].start < occs[i][1].start /\ occs[j][1].end > excess_past_min(occs, i)
  THEN <<Donation(i, j, occs[i][1].start - occs[j][1].end)>>
  ELSE IF occs[j][1].start > occs[i][1].start /\ occs[j][1].start < excess_past_min(occs, i)
  THEN <<Donation(i, j, occs[j][1].start - occs[i][1].end)>>
  ELSE <<>>
\* the donations pushed by the two loops, k counting the pairs (i, j)
RECURSIVE DonationsFrom(_, _)
DonationsFrom(occs, k) ==
  IF k > Len(occs) * Len(occs) THEN <<>>
  ELSE DonationsOf(occs, (k - 1) \div Len(occs) + 1, ((k - 1) % Len(occs)) + 1)
         \o DonationsFrom(occs, k + 1)

\* the sort key (dist, recv.start, donor.start), compared as tuples
DonationBefore(occs, a, b) ==
  \/ a.dist < b.dist
  \/ a.dist = b.dist /\ occs[a.recv][1].start < occs[b.recv][1].start
  \/ /\ a.dist = b.dist
     /\ occs[a.recv][1].start = occs[b.recv][1].start
     /\ occs[a.donor][1].start < occs[b.donor][1].start
\* sort_unstable_by: the order of donations with equal keys is not defined;
\* occurrences with pairwise distinct starts give pairwise distinct keys
RECURSIVE SortDonations(_, _, _, _)
InsertDonation(occs, sorted, d) ==
  SelectSeq(sorted, LAMBDA e : ~DonationBefore(occs, d, e)) \o <<d>>
    \o SelectSeq(sorted, LAMBDA e : DonationBefore(occs, d, e))
SortDonations(occs, donations, i, sorted) ==
  IF i > Len(donations) THEN sorted
  ELSE SortDonations(occs, donations, i + 1, InsertDonation(occs, sorted, donations[i]))

\* the state of resolve_occs_progress_using: results and occs_excess by the
\* occurrence's index, the sorted donations and the transfers made so far
ProgressState(kind, results, occs_excess, donations, transfers) ==
  [kind |-> kind, results |-> results, occs_excess |-> occs_excess,
   donations |-> donations, transfers |-> transfers]

\* the transfer loop (progress.rs 117-121)
RECURSIVE TransferLoop(_, _, _)
TransferStep(st, k, t, checks) ==
  IF t.kind # "ok" THEN [st EXCEPT !.kind = t.kind]
  ELSE TransferLoop(
         [st EXCEPT !.occs_excess[st.donations[k].donor] = t.excess,
                    !.results[st.donations[k].recv] = t.recv,
                    !.transfers = Append(@, [recv |-> st.donations[k].recv,
                                             donor |-> st.donations[k].donor,
                                             amount |-> t.transfer])],
         k + 1, checks)
TransferLoop(st, k, checks) ==
  IF k > Len(st.donations) THEN st
  ELSE TransferStep(st, k,
         transfer_progress(st.occs_excess[st.donations[k].donor],
                           st.results[st.donations[k].recv], checks),
         checks)

resolve_occs_progress_using(occs, checks) ==
  IF \E i \in 1..Len(occs) : ~IsSome(OccExcess(occs, i, checks))
  THEN ProgressState("panic", <<>>, <<>>, <<>>, <<>>)
  ELSE TransferLoop(
         ProgressState("ok",
                       [i \in 1..Len(occs) |-> ProgDetail(occs, i)],
                       [i \in 1..Len(occs) |-> Unwrap(OccExcess(occs, i, checks))],
                       SortDonations(occs, DonationsFrom(occs, 1), 1, <<>>),
                       <<>>),
         1, checks)

(***************************************************************************)
(* SpecProgress: resolve_occs_progress_using is given up to MaxOccs        *)
(* occurrences of one item, each with its resolved config.  The            *)
(* occurrences have different starts and are given in any order.  `calls`  *)
(* keeps the call made.                                                    *)
(***************************************************************************)
\* the periods of the occurrences as days of January 2024: three periods of
\* a week that follow one another and one that overlaps the first two
ProgressWindows ==
  <<<<1, 8>>, <<8, 15>>, <<15, 22>>, <<5, 12>>>>
ProgressAmounts ==
  {3, 10, 12, 15}
\* total 10 with both windows zero, total 10 with both windows a week,
\* nothing set
ProgressConfigs ==
  {Config(None, TaskCompletionConfig(Some(10), None, Some(0), Some(0))),
   Config(None, TaskCompletionConfig(Some(10), None, Some(Days(7)), Some(Days(7)))),
   Config(None, NoCompletion)}
ProgressOcc(w, progress) ==
  [active |-> TRUE, start |-> AndTime(Jan(ProgressWindows[w][1]), 0),
   end |-> AndTime(Jan(ProgressWindows[w][2]), 0), task_completion_progress |-> progress]
ProgressPair(w, progress, config) ==
  <<ProgressOcc(w, progress), ResolvedConfig(ScopeAll, config, config, None)>>
\* a config whose total is set to 0 (the field is an Option<u32>)
ProgressZeroTotal ==
  Config(None, TaskCompletionConfig(Some(0), None, Some(0), Some(0)))
\* the lists over ProgressConfigs, and one occurrence alone with a total of 0
ProgressInputs ==
  {occs \in ListsOf({ProgressPair(w, p, c) : w \in 1..Len(ProgressWindows),
                                            p \in ProgressAmounts,
                                            c \in ProgressConfigs}, MaxOccs) :
     \A i, j \in 1..Len(occs) : occs[i][1].start = occs[j][1].start => i = j}
  \cup {<<ProgressPair(w, p, ProgressZeroTotal)>> : w \in 1..Len(ProgressWindows),
                                                   p \in ProgressAmounts}

ProgressInit ==
  /\ overflow_checks \in BOOLEAN
  /\ IdleIter
  /\ store = EmptyStore
  /\ update_token = 0
  /\ request = None
  /\ calls = <<>>

\* the caller hands over the occurrences
ProgressSubmit ==
  /\ request = None
  /\ calls = <<>>
  /\ \E occs \in ProgressInputs : request' = Some(occs)
  /\ UNCHANGED <<overflow_checks, it_kind, it_iter, it_start, it_out, it_status,
                 store, update_token, calls>>

\* resolve_occs_progress_using(occs)
ResolveProgress ==
  /\ request # None
  /\ request' = None
  /\ calls' = <<[op |-> "resolve_occs_progress_using", occs |-> Unwrap(request),
                 result |-> resolve_occs_progress_using(Unwrap(request),
                                                        overflow_checks)]>>
  /\ UNCHANGED <<overflow_checks, it_kind, it_iter, it_start, it_out, it_status,
                 store, update_token>>

ProgressNext ==
  \/ ProgressSubmit
  \/ ResolveProgress

SpecProgress ==
  ProgressInit /\ [][ProgressNext]_vars

(***************************************************************************)
(* util/progress.rs over the store: resolve_occs_progress adds to the      *)
(* requested occurrences the stored ones within donation range, twice,     *)
(* and runs resolve_occs_progress_using on each item's occurrences.        *)
(***************************************************************************)
\* db/sqlite/read.rs find_occs: each filter given adds one condition, and the
\* conditions are joined with ", " inside WHERE (...).  SQLite prepares the
\* statement when there is exactly one condition; none is a syntax error and
\* two or three are a misused row value.
FindOccsExprs(item_dbids, start, end) ==
  (IF item_dbids # {} THEN 1 ELSE 0) + Len(start) + Len(end)
FindOccsRows(st, item_dbids, start, end) ==
  {r \in st.occs :
     /\ item_dbids # {} => r.item_id \in item_dbids
     /\ IsSome(start) => r.end_date > todb_occ_date(Unwrap(start))
     /\ IsSome(end) => r.start_date < todb_occ_date(Unwrap(end))}
\* Db::find_occs with SortDirection::Asc and max_results u32::MAX (sqlite.rs
\* 152-161): item_ids is the set of the ids, [kind, rows]
find_occs(st, item_ids, start, end) ==
  IF \E id \in item_ids : ~IsSome(todb_id(id)) THEN [kind |-> "err", rows |-> {}]
  ELSE IF FindOccsExprs({Unwrap(todb_id(id)) : id \in item_ids}, start, end) # 1
  THEN [kind |-> "err", rows |-> {}]
  ELSE [kind |-> "ok",
        rows |-> FindOccsRows(st, {Unwrap(todb_id(id)) : id \in item_ids}, start, end)]
\* Db::get_items (sqlite.rs 139-141, read.rs 52-63): [kind, items]
get_items(st, ids) ==
  IF \E id \in ids : ~IsSome(todb_id(id)) THEN [kind |-> "err", items |-> {}]
  ELSE [kind |-> "ok",
        items |-> {fromdb_item(r) : r \in {q \in st.items : fromdb_id(q.id) \in ids}}]

\* the state of the expansion: occs maps item ids to sets of Occ, configs
\* maps Occ to ResolvedConfig
ExpandState(kind, occs, configs) ==
  [kind |-> kind, occs |-> occs, configs |-> configs]
ExpandedOccs(occs) ==
  UNION {occs[i] : i \in DOMAIN occs}
\* .min().flatten() (progress.rs 137-146): None when there is no occurrence
\* or one of them has no config, None being the least Option
ExpandStart(occs, configs) ==
  IF ExpandedOccs(occs) = {} \/ \E o \in ExpandedOccs(occs) : o \notin DOMAIN configs
  THEN None
  ELSE Some(MinOf({o.start - opt_duration_to_chrono(
                       configs[o].resolved_config.task_completion_conf.excess_past) :
                   o \in ExpandedOccs(occs)}))
\* .max().flatten() (progress.rs 147-156): None when no occurrence has a config
ExpandEnd(occs, configs) ==
  IF ~\E o \in ExpandedOccs(occs) : o \in DOMAIN configs THEN None
  ELSE Some(MaxOf({o.end + opt_duration_to_chrono(
                       configs[o].resolved_config.task_completion_conf.excess_future) :
                   o \in ExpandedOccs(occs) \cap DOMAIN configs}))

\* update occs (progress.rs 162-170): the occurrences of the rows found are
\* added to those of their items
ExpandInsert(occs, rows) ==
  [i \in DOMAIN occs \cup {fromdb_id(r.item_id) : r \in rows} |->
     (IF i \in DOMAIN occs THEN occs[i] ELSE {})
       \cup {fromdb_occ(r).occ : r \in {q \in rows : fromdb_id(q.item_id) = i}}]
\* new_occs: the rows whose occurrence was not there, one row for each
\* occurrence of an item (the row of the least id stands for the one the
\* query returns first)
NewOccRows(occs, rows) ==
  {r \in rows :
     /\ fromdb_id(r.item_id) \in DOMAIN occs => fromdb_occ(r).occ \notin occs[fromdb_id(r.item_id)]
     /\ \A q \in rows : q.item_id = r.item_id /\ fromdb_occ(q).occ = fromdb_occ(r).occ
                          => r.id <= q.id}
\* new_occs as a list, here by row id (the code follows the HashMap's order)
RECURSIVE RowsById(_)
RowsById(rows) ==
  IF rows = {} THEN <<>>
  ELSE <<CHOOSE r \in rows : \A q \in rows : r.id <= q.id>>
         \o RowsById(rows \ {CHOOSE r \in rows : \A q \in rows : r.id <= q.id})
\* new_items_occs (progress.rs 177-179): the pairs <<item, occ>> of the new
\* occurrences whose item was found
NewItemsOccs(new_occs, items) ==
  [k \in 1..Len(SelectSeq(new_occs, LAMBDA r : \E i \in items : i.id = fromdb_id(r.item_id))) |->
     <<CHOOSE i \in items :
         i.id = fromdb_id(SelectSeq(new_occs,
                   LAMBDA r : \E j \in items : j.id = fromdb_id(r.item_id))[k].item_id),
       fromdb_occ(SelectSeq(new_occs,
                   LAMBDA r : \E j \in items : j.id = fromdb_id(r.item_id))[k])>>]
\* configs.insert(occ.occ.clone(), config) for every pair returned
RECURSIVE InsertConfigs(_, _, _)
InsertConfigs(configs, out, i) ==
  IF i > Len(out) THEN configs
  ELSE InsertConfigs([o \in DOMAIN configs \cup {out[i].obj.occ} |->
                        IF o = out[i].obj.occ THEN out[i].config ELSE configs[o]],
                     out, i + 1)
ExpandConfigs(occs, configs, got) ==
  IF got.kind # "ok" THEN ExpandState("err", occs, configs)
  ELSE ExpandState("ok", occs, InsertConfigs(configs, got.out, 1))
ExpandItems(st, ex, rows, new_occs, got) ==
  IF got.kind # "ok" THEN ExpandState("err", ex.occs, ex.configs)
  ELSE ExpandConfigs(ExpandInsert(ex.occs, rows), ex.configs,
                     get_occs_configs(st, NewItemsOccs(new_occs, got.items)))
ExpandFound(st, ex, new_occs, found) ==
  IF found.kind # "ok" THEN ExpandState("err", ex.occs, ex.configs)
  ELSE ExpandItems(st, ex, found.rows, new_occs,
                   get_items(st, {fromdb_id(new_occs[k].item_id) : k \in 1..Len(new_occs)}))
ExpandRange(st, ex, start, end, found) ==
  IF ~(IsSome(start) /\ IsSome(end)) THEN ex
  ELSE ExpandFound(st, ex, RowsById(NewOccRows(ex.occs, found.rows)), found)
expand_occs_for_progress(st, ex) ==
  IF ex.kind # "ok" THEN ex
  ELSE ExpandRange(st, ex, ExpandStart(ex.occs, ex.configs), ExpandEnd(ex.occs, ex.configs),
                   find_occs(st, DOMAIN ex.occs, ExpandStart(ex.occs, ex.configs),
                             ExpandEnd(ex.occs, ex.configs)))

\* occs is a sequence of pairs <<item_id, occs_configs>>, occs_configs a
\* sequence of pairs <<occ, config>>.  expanded_occs and configs before the
\* expansions (progress.rs 197-206): a later entry replaces an earlier one
RequestedOccs(occs) ==
  [id \in {occs[k][1] : k \in 1..Len(occs)} |->
     {occs[MaxOf({k \in 1..Len(occs) : occs[k][1] = id})][2][j][1] :
        j \in 1..Len(occs[MaxOf({k \in 1..Len(occs) : occs[k][1] = id})][2])}]
RequestedPairs(occs) ==
  UNION {{<<k, j>> : j \in 1..Len(occs[k][2])} : k \in 1..Len(occs)}
LastPair(occs, o) ==
  CHOOSE kj \in RequestedPairs(occs) :
    /\ occs[kj[1]][2][kj[2]][1] = o
    /\ \A q \in RequestedPairs(occs) :
         occs[q[1]][2][q[2]][1] = o => q[1] < kj[1] \/ (q[1] = kj[1] /\ q[2] <= kj[2])
RequestedConfigs(occs) ==
  [o \in {occs[kj[1]][2][kj[2]][1] : kj \in RequestedPairs(occs)} |->
     occs[LastPair(occs, o)[1]][2][LastPair(occs, o)[2]][2]]

\* item_occs_configs (progress.rs 218-221): the item's occurrences that have
\* a config, as a list (of the HashSet's order, here by start and end)
RECURSIVE OccsList(_, _)
OccsFirst(S) ==
  CHOOSE o \in S : \A q \in S : o.start < q.start \/ (o.start = q.start /\ o.end <= q.end)
OccsList(S, configs) ==
  IF S = {} THEN <<>>
  ELSE <<<<OccsFirst(S), configs[OccsFirst(S)]>>>> \o OccsList(S \ {OccsFirst(S)}, configs)
ItemOccsConfigs(ex, item_id) ==
  OccsList({o \in ex.occs[item_id] : o \in DOMAIN ex.configs}, ex.configs)
\* the TaskProgress of every occurrence of the list, by occurrence
ProgressByOcc(list, r) ==
  [o \in {list[i][1] : i \in 1..Len(list)} |->
     r.results[CHOOSE i \in 1..Len(list) : list[i][1] = o]]
\* occs_progress.extend for the items of the request, in its order
RECURSIVE ResolveItems(_, _, _, _, _)
ResolveItem(occs, ex, checks, k, acc, list, r) ==
  IF r.kind # "ok" THEN [kind |-> r.kind, out |-> <<>>]
  ELSE ResolveItems(occs, ex, checks, k + 1,
         [o \in DOMAIN acc \cup {list[i][1] : i \in 1..Len(list)} |->
            IF \E i \in 1..Len(list) : list[i][1] = o THEN ProgressByOcc(list, r)[o]
            ELSE acc[o]])
ResolveItems(occs, ex, checks, k, acc) ==
  IF k > Len(occs) THEN [kind |-> "ok", out |-> acc]
  ELSE ResolveItem(occs, ex, checks, k, acc, ItemOccsConfigs(ex, occs[k][1]),
                   resolve_occs_progress_using(ItemOccsConfigs(ex, occs[k][1]), checks))
\* only the requested occurrences are returned (progress.rs 226-234)
ResolveResult(occs, r) ==
  IF r.kind # "ok" THEN r
  ELSE [kind |-> "ok",
        out |-> [o \in DOMAIN r.out \cap DOMAIN RequestedConfigs(occs) |-> r.out[o]]]
ResolveExpanded(occs, ex, checks) ==
  IF ex.kind # "ok" THEN [kind |-> "err", out |-> <<>>]
  ELSE ResolveResult(occs, ResolveItems(occs, ex, checks, 1, <<>>))
resolve_occs_progress(st, occs, checks) ==
  ResolveExpanded(occs,
    expand_occs_for_progress(st,
      expand_occs_for_progress(st,
        ExpandState("ok", RequestedOccs(occs), RequestedConfigs(occs)))),
    checks)

(***************************************************************************)
(* SpecResolve: the store holds one progress task, up to MaxOccs of its    *)
(* occurrences and a config for the item type; a caller asks               *)
(* resolve_occs_progress for some of the stored occurrences, each with     *)
(* the config that get_occs_configs resolves for it.  `calls` keeps the    *)
(* call made.                                                              *)
(***************************************************************************)
ResolveTask ==
  [type_ |-> "ProgressTask", active |-> TRUE, category |-> None,
   sched |-> ProgressSched([k |-> "Dow", day |-> 1, weeks_apart |-> 1])]
\* total 10 with both windows a week, total 10 with both windows a fortnight
ResolveTypeConfigs ==
  {Config(None, TaskCompletionConfig(Some(10), None, Some(Days(7)), Some(Days(7)))),
   Config(None, TaskCompletionConfig(Some(10), None, Some(Days(14)), Some(Days(14))))}
ResolveAmounts ==
  {3, 12}
\* the occurrence rows of item 1: periods of ProgressWindows in the order of
\* their starts, with row ids 1, 2, ...
ResolveRows ==
  {[k \in 1..Len(l) |-> OccRow(k, 1, ProgressOcc(l[k][1], l[k][2]))] :
     l \in {m \in ListsOf((DOMAIN ProgressWindows) \X ResolveAmounts, MaxOccs) :
              \A k \in 2..Len(m) :
                ProgressWindows[m[k - 1][1]][1] < ProgressWindows[m[k][1]][1]}}
ResolveInit ==
  /\ overflow_checks \in BOOLEAN
  /\ IdleIter
  /\ \E rows \in ResolveRows, config \in ResolveTypeConfigs :
       store = [items |-> {ItemRow(1, ResolveTask)},
                occs |-> SeqToSet(rows),
                configs |-> {ConfigRow(1, ConfigIdType("ProgressTask"), config)}]
  /\ update_token = 0
  /\ request = None
  /\ calls = <<>>

\* the stored occurrence of a row with the config resolved for it
ResolveRequested(st, r) ==
  <<fromdb_occ(r).occ,
    get_occs_configs(st, <<<<fromdb_item(CHOOSE i \in st.items : i.id = r.item_id),
                             fromdb_occ(r)>>>>).out[1].config>>
\* the caller picks stored occurrences of the item
ResolveSubmit ==
  /\ request = None
  /\ calls = <<>>
  /\ \E rows \in SUBSET store.occs :
       request' = Some(<<<<"1", [k \in 1..Cardinality(rows) |->
                                   ResolveRequested(store, RowsById(rows)[k])]>>>>)
  /\ UNCHANGED <<overflow_checks, it_kind, it_iter, it_start, it_out, it_status,
                 store, update_token, calls>>

\* resolve_occs_progress(db, occs)
ResolveOccsProgress ==
  /\ request # None
  /\ request' = None
  /\ calls' = <<[op |-> "resolve_occs_progress", occs |-> Unwrap(request),
                 result |-> resolve_occs_progress(store, Unwrap(request),
                                                   overflow_checks)]>>
  /\ UNCHANGED <<overflow_checks, it_kind, it_iter, it_start, it_out, it_status,
                 store, update_token>>

ResolveNext ==
  \/ ResolveSubmit
  \/ ResolveOccsProgress

SpecResolve ==
  ResolveInit /\ [][ResolveNext]_vars

(***************************************************************************)
(* util.rs in_alert_period, and SpecAlert: callers ask, up to MaxCalls     *)
(* times, whether an instant is in the alert period of an occurrence.      *)
(* Each call reads the wall clock, which never goes back; `calls` keeps    *)
(* every call with its arguments, the clock it read and its answer.        *)
(***************************************************************************)
\* now is what Utc::now() returns during the call; date is not used
in_alert_period(occ, config, date, now) ==
  /\ now >= occ.end - opt_duration_to_chrono(config.resolved_config.occ_alert)
  /\ now < occ.end

\* no alert set, an alert of one day
AlertConfigs ==
  {ResolvedConfig(ScopeAll, Config(a, NoCompletion), Config(a, NoCompletion), None) :
     a \in {None, Some(Days(1))}}
\* around the end of SomeOcc, 2024-05-04: before the alert period, its first
\* instant, its last instant, the end
AlertInstants ==
  {AndTime(May(2), 0), AndTime(May(3), 0), AndTime(May(4), 0) - 1, AndTime(May(4), 0)}
AlertInit ==
  /\ overflow_checks = TRUE
  /\ IdleIter
  /\ store = EmptyStore
  /\ update_token = 0
  /\ request = None
  /\ calls = <<>>

\* the clock read by the last call, if any
LastClock ==
  IF calls = <<>> THEN AndTime(May(2), 0) ELSE calls[Len(calls)].now
InAlertPeriod ==
  /\ Len(calls) < MaxCalls
  /\ \E config \in AlertConfigs, date \in AlertInstants, now \in AlertInstants :
       /\ now >= LastClock
       /\ calls' = Append(calls, [op |-> "in_alert_period", occ |-> SomeOcc(0),
                                  config |-> config, date |-> date, now |-> now,
                                  result |-> in_alert_period(SomeOcc(0), config, date, now)])
  /\ UNCHANGED <<overflow_checks, it_kind, it_iter, it_start, it_out, it_status,
                 store, update_token, request>>

AlertNext ==
  InAlertPeriod

SpecAlert ==
  AlertInit /\ [][AlertNext]_vars

(***************************************************************************)
(* Db::find_items and util.rs get_current_items, and SpecFind: the items   *)
(* table holds some of four events; callers make up to MaxCalls calls of   *)
(* find_items and get_current_items.  `calls` keeps every call.            *)
(***************************************************************************)
\* db/sqlite/read.rs find_items with SortDirection::Asc and max_results
\* u32::MAX: each filter given adds one condition and the conditions are
\* joined with ", " after WHERE.  SQLite prepares the statement when there is
\* exactly one condition; none and two are syntax errors.  NULL > :min_end is
\* not true.  [kind, items], the items in the order of their creation
FindItemsRows(st, active, start) ==
  {r \in st.items :
     /\ IsSome(active) => r.item.active = Unwrap(active)
     /\ IsSome(start) => /\ IsSome(r.only_occ_end)
                         /\ Unwrap(r.only_occ_end) > todb_occ_date(Unwrap(start))}
find_items(st, active, start) ==
  IF Len(active) + Len(start) # 1 THEN [kind |-> "err", items |-> <<>>]
  ELSE [kind |-> "ok", items |-> StoredItems(FindItemsRows(st, active, start))]

\* a weekly event and an event on 10 January 2024, tracked from initial_day
FindItem(active, initial_day, recurring) ==
  [active |-> active,
   sched |-> EventSched(initial_day,
                        IF recurring THEN [k |-> "Dow", day |-> 2, weeks_apart |-> 1]
                        ELSE [k |-> "Date", dom |-> 10, month |-> 1, year |-> 2024],
                        None)]
FindPool ==
  <<FindItem(TRUE, Jan(3), TRUE), FindItem(FALSE, Jan(3), TRUE),
    FindItem(TRUE, Jan(1), FALSE), FindItem(TRUE, Jan(10), FALSE)>>
FindInstants ==
  {AndTime(Jan(5), 0), AndTime(Jan(10), NineAM)}
\* the rows of the chosen items, with ids in the order of the pool
RECURSIVE FindRows(_, _, _)
FindRows(chosen, k, rows) ==
  IF k > Len(FindPool) THEN rows
  ELSE FindRows(chosen, k + 1,
                IF k \in chosen
                THEN rows \cup {ItemRow(Cardinality(rows) + 1, FindPool[k])}
                ELSE rows)
FindInit ==
  /\ overflow_checks \in BOOLEAN
  /\ IdleIter
  /\ \E chosen \in SUBSET (1..Len(FindPool)) :
       store = [EmptyStore EXCEPT !.items = FindRows(chosen, 1, {})]
  /\ update_token = 0
  /\ request = None
  /\ calls = <<>>

\* db.find_items(active, start, SortDirection::Asc, u32::MAX)
FindItems ==
  /\ Len(calls) < MaxCalls
  /\ \E active \in {None, Some(TRUE), Some(FALSE)},
        start \in {None} \cup {Some(t) : t \in FindInstants} :
       calls' = Append(calls, [op |-> "find_items", active |-> active, start |-> start,
                               pre |-> store, result |-> find_items(store, active, start)])
  /\ UNCHANGED <<overflow_checks, it_kind, it_iter, it_start, it_out, it_status,
                 store, update_token, request>>

\* get_current_items(db, date): the `?` returns the error of find_items;
\* otherwise get_items_current_occ runs on the items found and its pairs
\* are returned in the order of the items
CurrentItemsFound(date, found) ==
  IF found.kind # "ok"
  THEN /\ calls' = Append(calls, [op |-> "get_current_items", date |-> date,
                                  pre |-> store, kind |-> "err", result |-> <<>>])
       /\ UNCHANGED <<overflow_checks, it_kind, it_iter, it_start, it_out, it_status,
                      store, update_token, request>>
  ELSE CurrentOccOf(date, found.items)
GetCurrentItems ==
  /\ Len(calls) < MaxCalls
  /\ \E date \in FindInstants :
       CurrentItemsFound(date, find_items(store, Some(TRUE), Some(date)))

FindNext ==
  \/ FindItems
  \/ GetCurrentItems

SpecFind ==
  FindInit /\ [][FindNext]_vars

(***************************************************************************)
(* SpecConc: two callers, each with its own connection to the same store,  *)
(* run get_items_current_occ for the stored item and the same date.  A     *)
(* caller first reads the latest occurrence and works out the new ones     *)
(* (util.rs 38-71), then writes them in one transaction (util.rs 73-78);   *)
(* the steps of the two callers interleave.  `request` holds the date and  *)
(* each caller's position and local state, `calls` every finished call.    *)
(***************************************************************************)
Callers ==
  {1, 2}
ConcCaller(pc, acc) ==
  [pc |-> pc, acc |-> acc]
ConcInit ==
  /\ overflow_checks \in BOOLEAN
  /\ IdleIter
  /\ \E sched \in Scheds :
       /\ store = DbWrite(EmptyStore,
                          <<CreateItem(0, [active |-> TRUE, sched |-> sched])>>, 0).st
       /\ \E date \in {AndTime(d, t) : d \in RefDays(sched), t \in RefTimes} :
            request = Some([date |-> date,
                            callers |-> [p \in Callers |->
                                           ConcCaller("start", ScanInit(0))]])
  /\ update_token = 1
  /\ calls = <<>>

\* the loop over the items: the reads of find_occs and the ids taken from
\* the process-wide counter behind DbUpdate::id_token
ConcScanned(p, acc) ==
  /\ request' = Some([Unwrap(request) EXCEPT
                        !.callers[p] = ConcCaller(IF acc.kind = "ok" THEN "scanned"
                                                  ELSE "done", acc)])
  /\ update_token' = acc.token
  /\ calls' = IF acc.kind = "ok" THEN calls
              ELSE Append(calls, [op |-> "current", caller |-> p, kind |-> acc.kind,
                                  created |-> <<>>, result |-> <<>>])
  /\ UNCHANGED <<overflow_checks, it_kind, it_iter, it_start, it_out, it_status, store>>
ConcScan ==
  \E p \in Callers :
    /\ Unwrap(request).callers[p].pc = "start"
    /\ \E latest \in LatestChoices(store, StoredItems(store.items)) :
         ConcScanned(p, ScanItems(ScanInit(update_token), StoredItems(store.items),
                                  latest, 1, Unwrap(request).date, overflow_checks))

\* db.write of the new occurrences and the answer built from its ids
ConcWritten(p, acc, updates, w) ==
  /\ store' = w.st
  /\ request' = Some([Unwrap(request) EXCEPT !.callers[p] = ConcCaller("done", acc)])
  /\ calls' = Append(calls,
                     [op |-> "current", caller |-> p,
                      kind |-> IF w.ok THEN "ok" ELSE w.err,
                      created |-> IF w.ok THEN updates ELSE <<>>,
                      result |-> IF w.ok
                                 THEN CurrentOf(Unwrap(request).date,
                                                acc.items_last_occ \o LastNew(acc, w.ids))
                                 ELSE <<>>])
  /\ UNCHANGED <<overflow_checks, it_kind, it_iter, it_start, it_out, it_status,
                 update_token>>
ConcWriteOf(p, acc) ==
  \E order \in Orders(Len(acc.new_occs)) :
    \E fault \in 0..(Len(acc.new_occs) + 1) :
      ConcWritten(p, acc, OccUpdates(acc.new_occs, order),
                  DbWrite(store, OccUpdates(acc.new_occs, order), fault))
ConcWrite ==
  \E p \in Callers :
    /\ Unwrap(request).callers[p].pc = "scanned"
    /\ ConcWriteOf(p, Unwrap(request).callers[p].acc)

ConcNext ==
  \/ ConcScan
  \/ ConcWrite

SpecConc ==
  ConcInit /\ [][ConcNext]_vars

(***************************************************************************)
(* SpecGen: an OccGen is asked for a schedule's first occurrence and then, *)
(* up to MaxCalls times, for the occurrences after the last one it gave.   *)
(* `calls` keeps every call with its arguments and what it returned.       *)
(***************************************************************************)
\* schedules the types admit whose stride, length or duration is zero, and
\* month periods that start on a day not every month has
ZeroScheds ==
  {EventSched(Jan(9), [k |-> "Day", days_apart |-> 0], None),
   EventSched(Jan(9), [k |-> "Dow", day |-> 7, weeks_apart |-> 0], None),
   ProgressSched([k |-> "Days", num |-> 0]),
   ProgressSched([k |-> "Months", num |-> 1, start_day |-> 29]),
   ProgressSched([k |-> "Months", num |-> 1, start_day |-> 31]),
   [k |-> "DeadlineTask", duration |-> 0]}
GenScheds ==
  Scheds \cup ZeroScheds
\* the instants given as `now` and `until`; for the schedules of ZeroScheds
\* also a horizon two months on
GenDays(sched) ==
  IF sched \in ZeroScheds THEN RefDays(sched) \cup {Ymd(2024, 3, 10)}
  ELSE RefDays(sched)
GenInstants(sched) ==
  {AndTime(d, t) : d \in GenDays(sched), t \in RefTimes}

GenCall(op, sched, occ, until, r) ==
  [op |-> op, sched |-> sched, occ |-> occ, until |-> until,
   kind |-> r.kind, occs |-> r.occs]

GenInit ==
  /\ overflow_checks \in BOOLEAN
  /\ IdleIter
  /\ store = EmptyStore
  /\ update_token = 0
  /\ request = None
  /\ calls = <<>>

\* OccGen::generate_first(now)
GenerateFirst ==
  /\ calls = <<>>
  /\ \E sched \in GenScheds : \E now \in GenInstants(sched) :
       calls' = <<GenCall("generate_first", sched, None, now,
                          generate_first(sched, now, overflow_checks))>>
  /\ UNCHANGED <<overflow_checks, it_kind, it_iter, it_start, it_out, it_status,
                 store, update_token, request>>

\* OccGen::generate_after(occ, until), occ the last occurrence of call `last`
GenerateAfterOf(last) ==
  /\ last.kind = "ok"
  /\ last.occs # <<>>
  /\ \E until \in GenInstants(last.sched) :
       calls' = Append(calls,
                  GenCall("generate_after", last.sched,
                          Some(last.occs[Len(last.occs)]), until,
                          generate_after(last.sched, last.occs[Len(last.occs)],
                                         until, overflow_checks)))
GenerateAfter ==
  /\ calls # <<>>
  /\ Len(calls) <= MaxCalls
  /\ GenerateAfterOf(calls[Len(calls)])
  /\ UNCHANGED <<overflow_checks, it_kind, it_iter, it_start, it_out, it_status,
                 store, update_token, request>>

GenNext ==
  \/ GenerateFirst
  \/ GenerateAfter

SpecGen ==
  GenInit /\ [][GenNext]_vars

(***************************************************************************)
(* SpecToken: threads call DbUpdate::id_token in any interleaving.  The    *)
(* call is one atomic read-modify-write of the static UPDATE_TOKEN         *)
(* (AtomicU64::fetch_add, relaxed): it returns the value the counter had   *)
(* and adds one to it, wrapping at the width.  `calls` keeps the calls in  *)
(* the order the counter saw them.                                         *)
(***************************************************************************)
Threads ==
  {1, 2, 3}

\* an increment that is lost: the counter keeps its value
FetchAddNoStore(counter, n) ==
  [old |-> counter, new |-> counter]
\* AtomicU64::fetch_add(n, Relaxed): the previous value, and the new one
fetch_add(counter, n) ==
  [old |-> counter, new |-> (counter + n) % TokenModulus]

TokenInit ==
  /\ overflow_checks \in BOOLEAN
  /\ IdleIter
  /\ store = EmptyStore
  /\ update_token = 0
  /\ request = None
  /\ calls = <<>>

IdTokenDone(t, r) ==
  /\ update_token' = r.new
  /\ calls' = Append(calls, [op |-> "id_token", thread |-> t, result |-> r.old])
  /\ UNCHANGED <<overflow_checks, it_kind, it_iter, it_start, it_out, it_status,
                 store, request>>
\* DbUpdate::id_token() called by thread t
IdToken(t) ==
  /\ Len(calls) < MaxTokenCalls
  /\ IdTokenDone(t, fetch_add(update_token, 1))

TokenNext ==
  \E t \in Threads : IdToken(t)

SpecToken ==
  TokenInit /\ [][TokenNext]_vars

(***************************************************************************)
(* Claims about the schedule iterators, checked under SpecIter.            *)
(***************************************************************************)

\* C7: for every DayFilter and every start_day, the dates returned by
\* successive next() calls are strictly ascending and none is earlier than
\* start_day.
C7_StrictlyAscendingFromStart ==
  it_kind = "days" =>
    \A i \in 1..Len(it_out) :
      /\ it_out[i] >= it_start
      /\ i > 1 => it_out[i] > it_out[i - 1]

\* C8: for every ProgressTaskSched and every start_day, consecutive pairs are
\* contiguous: the later pair's start equals the earlier pair's end.
C8_PeriodsContiguous ==
  it_kind = "periods" =>
    \A i \in 2..Len(it_out) : it_out[i][1] = it_out[i - 1][2]

\* the latest day on or before `day` that satisfies Aligned, looking back at
\* most `span` days
RECURSIVE AlignedOnOrBefore(_, _, _)
AlignedOnOrBefore(Aligned(_), day, span) ==
  IF span = 0 \/ Aligned(day) THEN day
  ELSE AlignedOnOrBefore(Aligned, day - 1, span - 1)

SaturatedDom(y, m, dom) ==
  IF dom <= MonthLen(y, m) THEN dom ELSE MonthLen(y, m)
IsMonthStart(c, dom) ==
  c.d = SaturatedDom(c.y, c.m, dom)
IsYearStart(c, moy, dom) ==
  c.m = moy /\ c.d = SaturatedDom(c.y, moy, dom)

\* the first pair the claim describes for schedule s and start_day
C9_ExpectedStart(s, start_day) ==
  CASE s.k = "Days"   -> start_day
    [] s.k = "Weeks"  ->
         AlignedOnOrBefore(LAMBDA d : WeekdayOf(d) = s.start_day, start_day, 7)
    [] s.k = "Months" ->
         AlignedOnOrBefore(LAMBDA d : IsMonthStart(CivilFromDays(d), s.start_day),
                           start_day, 62)
    [] s.k = "Years"  ->
         AlignedOnOrBefore(
           LAMBDA d : IsYearStart(CivilFromDays(d), s.start_month, s.start_dom),
           start_day, 732)
C9_ExpectedEnd(s, start) ==
  CASE s.k = "Days"   -> start + s.num
    [] s.k = "Weeks"  -> start + 7 * s.num
    [] s.k = "Months" -> Unwrap(CheckedAddMonths(start, s.num))
    [] s.k = "Years"  -> Unwrap(CheckedAddMonths(start, 12 * s.num))

\* C9: the first pair (s, e) contains start_day, s <= start_day < e; s is the
\* nearest aligned day on or before start_day and e is s plus the rule's
\* length (7 * num days, num months, num years).
C9_FirstPeriodContainsStart ==
  (it_kind = "periods" /\ Len(it_out) >= 1) =>
    /\ it_out[1][1] <= it_start
    /\ it_start < it_out[1][2]
    /\ it_out[1][1] = C9_ExpectedStart(it_iter.sched, it_start)
    /\ it_out[1][2] = C9_ExpectedEnd(it_iter.sched, it_out[1][1])

\* the listed days of the month of civil date c, saturated to the month's
\* length, as dates
DomDatesOfMonth(days, c) ==
  {DaysFromCivil(c.y, c.m, SaturatedDom(c.y, c.m, days[i])) : i \in 1..Len(days)}
FirstOfMonthAfter(c, months) ==
  DaysFromCivil((c.y * 12 + c.m - 1 + months) \div 12,
                ((c.y * 12 + c.m - 1 + months) % 12) + 1, 1)
LastOfMonth(c) ==
  DaysFromCivil(c.y, c.m, MonthLen(c.y, c.m))

\* the first n dates the claim describes for Dom{days, months_apart} from
\* `cursor` (months_apart >= 1, days not empty)
RECURSIVE C10_Expected(_, _, _, _)
C10_Expected(days, months_apart, cursor, n) ==
  IF n = 0 THEN <<>>
  ELSE LET c     == CivilFromDays(cursor)
           cands == {d \in DomDatesOfMonth(days, c) : d >= cursor}
       IN IF cands = {}
          THEN C10_Expected(days, months_apart,
                            FirstOfMonthAfter(c, months_apart), n)
          ELSE <<MinOf(cands)>> \o
               C10_Expected(days, months_apart,
                 IF MinOf(cands) = LastOfMonth(c)
                 THEN FirstOfMonthAfter(c, months_apart)
                 ELSE MinOf(cands) + 1,
                 n - 1)

\* C10: Dom{days, months_apart} yields, in each visited month and in
\* ascending order, every listed day at or after the cursor, a day beyond the
\* month's length replaced by the month's last day and equal results yielded
\* once; then it moves months_apart months ahead.
C10_DomYieldsSaturatedDays ==
  (/\ it_kind = "days"
   /\ it_iter.day_filter.k = "Dom"
   /\ it_iter.day_filter.months_apart >= 1
   /\ it_iter.day_filter.days # <<>>) =>
    it_out = C10_Expected(it_iter.day_filter.days,
                          it_iter.day_filter.months_apart, it_start, Len(it_out))

\* C10, scenario S2: Dom{days=[31], months_apart=1} from 2024-01-01 yields
\* 2024-01-31, 2024-02-29, 2024-03-31, 2024-04-30.
C10_ScenarioS2 ==
  (/\ it_kind = "days"
   /\ it_iter.day_filter = [k |-> "Dom", days |-> <<31>>, months_apart |-> 1]
   /\ it_start = Ymd(2024, 1, 1)
   /\ Len(it_out) = 4) =>
    it_out = <<Ymd(2024, 1, 31), Ymd(2024, 2, 29), Ymd(2024, 3, 31), Ymd(2024, 4, 30)>>

\* months from the month of `start` to the month of `d`
MonthsBetween(start, d) ==
  (YearOf(d) * 12 + MonthOf(d)) - (YearOf(start) * 12 + MonthOf(start))

\* d is a date the claim describes for Wom filter f started at start_day
C11_WomDate(f, start_day, d) ==
  /\ d >= start_day
  /\ WeekdayOf(d) = f.dow
  /\ ((DayOf(d) - 1) \div 7 + 1) \in SeqToSet(f.weeks)
  /\ MonthsBetween(start_day, d) % f.months_apart = 0

C11_Exactly(f, start_day, out) ==
  /\ \A i \in 1..Len(out) :
       /\ C11_WomDate(f, start_day, out[i])
       /\ i > 1 => out[i] > out[i - 1]
  /\ out # <<>> =>
       \A d \in start_day..out[Len(out)] :
         C11_WomDate(f, start_day, d) => \E i \in 1..Len(out) : out[i] = d
  /\ (\A w \in SeqToSet(f.weeks) : w > 5) => out = <<>>

\* C11: Wom{dow, weeks, months_apart} yields exactly the dates whose weekday
\* is dow and whose week of the month (day0 \div 7 + 1) is listed, in the start
\* month and then only in months a multiple of months_apart months after it;
\* it yields nothing when every listed week is above 5.
C11_WomYieldsListedWeeks ==
  (it_kind = "days" /\ it_iter.day_filter.k = "Wom") =>
    C11_Exactly(it_iter.day_filter, it_start, it_out)

\* the date of month/dom (saturated) in year y
DoyDate(f, y) ==
  DaysFromCivil(y, f.month, SaturatedDom(y, f.month, f.dom))
C12_FirstYear(f, start_day) ==
  IF DoyDate(f, YearOf(start_day)) >= start_day THEN YearOf(start_day)
  ELSE YearOf(start_day) + 1

\* C12: for Doy{dom, month, years_apart} the first yielded date is this
\* year's saturated month/day when it is >= start_day (start_day itself when
\* it matches), otherwise the next year's; every later date is years_apart
\* years after the one before.
C12_DoyFromStartByStride ==
  (it_kind = "days" /\ it_iter.day_filter.k = "Doy") =>
    \A i \in 1..Len(it_out) :
      it_out[i] = DoyDate(it_iter.day_filter,
                          C12_FirstYear(it_iter.day_filter, it_start)
                            + (i - 1) * it_iter.day_filter.years_apart)

(***************************************************************************)
(* Claims about Db::write, checked under SpecWrite.  A step that takes     *)
(* `request` from Some to None is one Db::write call: `store` is the       *)
(* store before it, store' the store after it, calls'[1] what it returned. *)
(***************************************************************************)
LaterOf(u, i, kinds) ==
  \E j \in (i + 1)..Len(u) : u[j].k \in kinds
LastCreateOf(u, i) ==
  ~\E j \in (i + 1)..Len(u) : IsCreate(u[j]) /\ u[j].id_token = u[i].id_token

\* update i of the successful batch u shows in the store st, unless a later
\* update of the batch changed the same table's rows again
Visible(st, u, ids, i) ==
  CASE u[i].k = "CreateItem" ->
         /\ u[i].id_token \in DOMAIN ids
         /\ (LastCreateOf(u, i) /\ ~LaterOf(u, i, {"UpdateItem", "DeleteItem"}))
              => \E r \in st.items :
                   fromdb_id(r.id) = ids[u[i].id_token] /\ r.item = u[i].item
    [] u[i].k = "CreateOcc" ->
         /\ u[i].id_token \in DOMAIN ids
         /\ (LastCreateOf(u, i) /\ ~LaterOf(u, i, {"UpdateOcc", "DeleteOcc"}))
              => \E r \in st.occs :
                   /\ fromdb_id(r.id) = ids[u[i].id_token]
                   /\ fromdb_occ(r).occ = u[i].occ
    [] u[i].k = "UpdateItem" ->
         ~LaterOf(u, i, {"UpdateItem", "DeleteItem", "CreateItem"})
           => \A r \in st.items :
                fromdb_id(r.id) = u[i].item.id => r.item = u[i].item.item
    [] u[i].k = "UpdateOcc" ->
         ~LaterOf(u, i, {"UpdateOcc", "DeleteOcc", "CreateOcc"})
           => \A r \in st.occs :
                fromdb_id(r.id) = u[i].occ.id => fromdb_occ(r).occ = u[i].occ.occ
    [] u[i].k = "DeleteItem" ->
         ~LaterOf(u, i, {"CreateItem"})
           => ~\E r \in st.items : fromdb_id(r.id) = u[i].id
    [] u[i].k = "DeleteOcc" ->
         ~LaterOf(u, i, {"CreateOcc"})
           => ~\E r \in st.occs : fromdb_id(r.id) = u[i].id
    [] u[i].k = "SetConfig" ->
         \E r \in st.configs :
           r.scope = u[i].config.id /\ r.config = u[i].config.config
    [] u[i].k = "DeleteConfig" ->
         ~LaterOf(u, i, {"SetConfig"})
           => ~\E r \in st.configs : r.scope = u[i].id

C2_Step(before, after, u, w) ==
  /\ ~w.ok => after = before /\ w.ids = <<>>
  /\ w.ok => \A i \in 1..Len(u) : Visible(after, u, w.ids, i)

\* C2: Db::write is all-or-nothing: when an update of the batch fails
\* (unparseable id, unknown token, store error), the store afterwards holds
\* exactly the items, occurrences and configs it held before the call and no
\* token-to-id mapping is returned; when none fails, every update is visible
\* and every create's token is mapped.
C2_WriteAllOrNothing ==
  [][(request # None /\ request' = None)
       => C2_Step(store, store', Unwrap(request).updates, calls'[1])]_vars

\* a batch failed on an unparseable id at its second update, in a store
\* that was not empty
C2_Witness ==
  /\ request = None
  /\ calls # <<>>
  /\ ~calls[1].ok
  /\ calls[1].pos = 2
  /\ calls[1].err = "invalid_id"
  /\ store # EmptyStore

\* the positions of the CreateOcc updates whose item token no earlier create
\* of the batch produced
Unbound(u) ==
  {i \in 1..Len(u) :
     /\ u[i].k = "CreateOcc"
     /\ u[i].item_id.t = "Token"
     /\ ~\E j \in 1..(i - 1) : IsCreate(u[j]) /\ u[j].id_token = u[i].item_id.token}
\* the id the token names at position i: that of the latest earlier create
Binder(u, i) ==
  MaxOf({j \in 1..(i - 1) : IsCreate(u[j]) /\ u[j].id_token = u[i].item_id.token})

C3_Step(after, u, w) ==
  /\ Unbound(u) # {}
       => /\ ~w.ok
          /\ w.pos <= MinOf(Unbound(u))
          /\ w.pos = MinOf(Unbound(u)) => w.err = "invalid_token"
  /\ w.err = "invalid_token" => w.pos \in Unbound(u)
  /\ w.ok
       => \A i \in 1..Len(u) :
            (/\ u[i].k = "CreateOcc"
             /\ u[i].item_id.t = "Token"
             /\ LastCreateOf(u, i)
             /\ LastCreateOf(u, Binder(u, i))
             /\ ~LaterOf(u, i, {"UpdateOcc", "DeleteOcc"}))
              => \E r \in after.occs :
                   /\ fromdb_id(r.id) = w.ids[u[i].id_token]
                   /\ fromdb_id(r.item_id) = w.ids[u[i].item_id.token]

\* C3: the updates of a batch are applied in the order given; a CreateOcc
\* whose item_id is a token succeeds only if a create earlier in the same
\* batch produced the token, and then belongs to the row that create made;
\* one that names a token created later in the batch, or not at all, fails
\* the whole batch with an invalid-token error.
C3_TokensResolveInOrder ==
  [][(request # None /\ request' = None)
       => C3_Step(store', Unwrap(request).updates, calls'[1])]_vars

\* a batch failed at its second update on a token nothing before it created
C3_Witness ==
  /\ request = None
  /\ calls # <<>>
  /\ ~calls[1].ok
  /\ calls[1].pos = 2
  /\ calls[1].err = "invalid_token"

(***************************************************************************)
(* Claims about get_items_current_occ, checked under SpecOcc.  calls[i] is *)
(* the i-th call: its reference instant `date`, the store before (pre) and *)
(* after (post), the write batch (created) and the pairs returned (result).*)
(***************************************************************************)
Returned(c) ==
  {[item_id |-> e.item.id, occ |-> e.occ] : e \in SeqToSet(c.result)}
\* the occurrences call c created for the item of row r
CreatedFor(c, r) ==
  {u.occ : u \in {v \in SeqToSet(c.created) : v.item_id.id = fromdb_id(r.id)}}
\* the occurrence call c returned for the item of row r, as a set
ReturnedFor(c, r) ==
  {e.occ.occ : e \in {x \in SeqToSet(c.result) : x.item.id = fromdb_id(r.id)}}

\* C1: get_items_current_occ is idempotent: of two consecutive calls with
\* the same reference instant that both return, the second returns the same
\* (item, occurrence) pairs as the first and creates no occurrence.
C1_Idempotent ==
  \A i \in 1..(Len(calls) - 1) :
    (/\ calls[i].kind = "ok"
     /\ calls[i + 1].kind = "ok"
     /\ calls[i + 1].date = calls[i].date)
      => /\ Returned(calls[i + 1]) = Returned(calls[i])
         /\ calls[i + 1].created = <<>>
         /\ calls[i + 1].post = calls[i + 1].pre

\* C4: the occurrence returned for an Event item is the next upcoming one:
\* its start is at or after the reference instant, and the store after the
\* call holds no other occurrence of the item that starts at or after the
\* reference instant and before the returned one.
C4_EventCurrentIsNextUpcoming ==
  \A i \in 1..Len(calls) :
    \A e \in SeqToSet(calls[i].result) :
      e.item.item.sched.k = "Event"
        => /\ e.occ.occ.start >= calls[i].date
           /\ ~\E r \in calls[i].post.occs :
                 /\ fromdb_id(r.item_id) = e.item.id
                 /\ fromdb_occ_date(r.start_date) >= calls[i].date
                 /\ fromdb_occ_date(r.start_date) < e.occ.occ.start

\* the end of the latest stored occurrence of the item of row r
LatestEnd(st, r) ==
  fromdb_occ_date((CHOOSE q \in LatestRows(st, r.id) : TRUE).end_date)
\* a deadline task whose latest occurrence ended by the reference instant
RollsForward(c, r) ==
  /\ c.kind = "ok"
  /\ r.item.sched.k = "DeadlineTask"
  /\ r.item.sched.duration > 0
  /\ LatestRows(c.pre, r.id) # {}
  /\ LatestEnd(c.pre, r) <= c.date
Interval(e, d, k) ==
  new_occ(e + k * d, e + (k + 1) * d)
C5_General(c, r, e, d) ==
  /\ CreatedFor(c, r) = {Interval(e, d, k) : k \in 0..((c.date - e) \div d)}
  /\ ReturnedFor(c, r) = {Interval(e, d, (c.date - e) \div d)}
\* scenario S3: duration 3 days, latest occurrence [05-01, 05-04], reference
\* instant 05-10
ScenarioS3(c, r) ==
  /\ c.kind = "ok"
  /\ r.item.sched.k = "DeadlineTask"
  /\ r.item.sched.duration = Days(3)
  /\ c.date = AndTime(May(10), 0)
  /\ \E q \in LatestRows(c.pre, r.id) :
       fromdb_occ(q).occ = new_occ(AndTime(May(1), 0), AndTime(May(4), 0))

\* C5: deadline roll-forward.  For duration D > 0 and latest end E <= now
\* the occurrences created are the consecutive intervals [E+kD, E+(k+1)D]
\* for k = 0..(now-E) div D, and the last of them is returned as current.
\* In scenario S3 these are the three occurrences ending 05-07, 05-10 and
\* 05-13, and [05-10, 05-13] is returned.
C5_DeadlineRollForward ==
  \A i \in 1..Len(calls) :
    \A r \in calls[i].pre.items :
      /\ RollsForward(calls[i], r)
           => C5_General(calls[i], r, LatestEnd(calls[i].pre, r), r.item.sched.duration)
      /\ ScenarioS3(calls[i], r)
           => /\ {o.end : o \in CreatedFor(calls[i], r)}
                   = {AndTime(May(7), 0), AndTime(May(10), 0), AndTime(May(13), 0)}
              /\ ReturnedFor(calls[i], r)
                   = {new_occ(AndTime(May(10), 0), AndTime(May(13), 0))}

\* C5 as the specification words it: scenario S3 creates exactly two
\* occurrences, ending 05-07 and 05-10, and returns the latter.
C5_AsSpecified ==
  \A i \in 1..Len(calls) :
    \A r \in calls[i].pre.items :
      ScenarioS3(calls[i], r)
        => /\ {o.end : o \in CreatedFor(calls[i], r)}
                = {AndTime(May(7), 0), AndTime(May(10), 0)}
           /\ ReturnedFor(calls[i], r)
                = {new_occ(AndTime(May(7), 0), AndTime(May(10), 0))}

\* scenario S3 has been played
C5_Witness ==
  \E i \in 1..Len(calls) :
    \E r \in calls[i].pre.items :
      ScenarioS3(calls[i], r) /\ Cardinality(calls[i].post.occs) > 1

\* the first date DayFilterDaysIter(filter, initial_day) returns that is not
\* before `today`, as an Option; None when the iterator ends, panics or
\* never gets there
RECURSIVE FirstDateFrom(_, _, _)
FirstDateStep(it, r, today, checks) ==
  IF r.kind # "some" THEN None
  ELSE IF r.val >= today THEN Some(r.val)
  ELSE IF r.day = it.day THEN None
  ELSE FirstDateFrom([it EXCEPT !.day = r.day], today, checks)
FirstDateFrom(it, today, checks) ==
  FirstDateStep(it, DayFilterDaysIterNext(it, checks), today, checks)
FirstDate(sched, today, checks) ==
  FirstDateFrom(DayFilterDaysIterNew(sched.days, sched.initial_day), today, checks)

\* an Event item without stored occurrence, and a call that returned
FirstCall(c, r) ==
  /\ c.kind = "ok"
  /\ r.item.sched.k = "Event"
  /\ LatestRows(c.pre, r.id) = {}
EventOccAt(sched, day) ==
  new_occ(AndTime(day, UnwrapOr(sched.time, 0)), AndTime(day, UnwrapOr(sched.time, 0)))
C6_First(c, r, first) ==
  IF first = None
  THEN CreatedFor(c, r) = {} /\ ReturnedFor(c, r) = {}
  ELSE /\ CreatedFor(c, r) = {EventOccAt(r.item.sched, Unwrap(first))}
       /\ Len(c.created) = 1
       /\ ReturnedFor(c, r)
            = IF EventOccAt(r.item.sched, Unwrap(first)).start >= c.date
              THEN {EventOccAt(r.item.sched, Unwrap(first))}
              ELSE {}
\* scenario S1: initial_day 2024-01-02, Dow{Tue, weeks_apart 2}, 09:00,
\* reference instant 2024-01-10T00:00
ScenarioS1(c, r) ==
  /\ FirstCall(c, r)
  /\ r.item.sched = EventSched(Jan(2), [k |-> "Dow", day |-> 2, weeks_apart |-> 2],
                               Some(NineAM))
  /\ c.date = AndTime(Jan(10), 0)

\* C6: for an Event item with no stored occurrence the call creates at most
\* one occurrence: when DayFilterDaysIter(filter, initial_day) returns a
\* date on or after the day of the reference instant, exactly the one for
\* the first such date, at the schedule's time (midnight when absent), with
\* start = end, returned as current when its start is at or after the
\* reference instant; when the iterator ends before such a date, none.
\* Scenario S1 gives start = end = 2024-01-16T09:00.
C6_EventFirstOccurrence ==
  \A i \in 1..Len(calls) :
    \A r \in calls[i].pre.items :
      /\ FirstCall(calls[i], r)
           => C6_First(calls[i], r,
                       FirstDate(r.item.sched, DateNaive(calls[i].date), overflow_checks))
      /\ ScenarioS1(calls[i], r)
           => /\ CreatedFor(calls[i], r)
                   = {new_occ(AndTime(Jan(16), NineAM), AndTime(Jan(16), NineAM))}
              /\ ReturnedFor(calls[i], r) = CreatedFor(calls[i], r)

\* C6 as the specification words it: the call creates exactly one
\* occurrence.
C6_AsSpecified ==
  \A i \in 1..Len(calls) :
    \A r \in calls[i].pre.items :
      FirstCall(calls[i], r) => Cardinality(CreatedFor(calls[i], r)) = 1

\* scenario S1 has been played
C6_Witness ==
  \E i \in 1..Len(calls) :
    \E r \in calls[i].pre.items :
      ScenarioS1(calls[i], r) /\ calls[i].post.occs # {}

(***************************************************************************)
(* Claims about OccGen, checked under SpecGen.                             *)
(***************************************************************************)
C13_Ascending(occs) ==
  \A i \in 2..Len(occs) : occs[i - 1].start <= occs[i].start
C13_After(sched, x, occs) ==
  \A i \in 1..Len(occs) :
    IF sched.k = "Event" THEN occs[i].start > x.start
    ELSE occs[i].start >= x.end
\* occurrence i lies beyond h: an event starts after h; a task starts after h
\* or follows an occurrence that already ends after h
C13_Beyond(sched, h, occs) ==
  {i \in 1..Len(occs) :
     IF sched.k = "Event" THEN occs[i].start > h
     ELSE occs[i].start > h \/ (i > 1 /\ occs[i - 1].end > h)}
C13_Call(c) ==
  (c.op = "generate_after" /\ c.kind = "ok") =>
    /\ C13_Ascending(c.occs)
    /\ C13_After(c.sched, Unwrap(c.occ), c.occs)
    /\ Cardinality(C13_Beyond(c.sched, c.until, c.occs)) <= 1

\* C13: generate_after(X, H) returns occurrences in ascending start order,
\* each with start > X.start (Event) or start >= X.end (ProgressTask,
\* DeadlineTask), and at most one of them lies beyond H.
C13_GenerateAfterBounded ==
  \A i \in 1..Len(calls) : C13_Call(calls[i])

(***************************************************************************)
(* Claims about util/config.rs, checked under SpecConfig.                  *)
(***************************************************************************)
ConfigFields ==
  {"occ_alert", "total", "unit", "excess_past", "excess_future"}
FieldOf(config, f) ==
  CASE f = "occ_alert"     -> config.occ_alert
    [] f = "total"         -> config.task_completion_conf.total
    [] f = "unit"          -> config.task_completion_conf.unit
    [] f = "excess_past"   -> config.task_completion_conf.excess_past
    [] f = "excess_future" -> config.task_completion_conf.excess_future

\* merge(parent, child): the child's value where present, else the parent's
C14_MergeField(parent, child, f) ==
  IF IsSome(FieldOf(child, f)) THEN FieldOf(child, f) ELSE FieldOf(parent, f)
C14_Merge(parent, child) ==
  Config(C14_MergeField(parent, child, "occ_alert"),
         TaskCompletionConfig(C14_MergeField(parent, child, "total"),
                              C14_MergeField(parent, child, "unit"),
                              C14_MergeField(parent, child, "excess_past"),
                              C14_MergeField(parent, child, "excess_future")))
\* merge(...merge(merge(c1, c2), c3)..., cn)
RECURSIVE C14_Fold(_, _)
C14_Fold(configs, n) ==
  IF n = 1 THEN configs[1].config
  ELSE C14_Merge(C14_Fold(configs, n - 1), configs[n].config)
\* the configs of the list that set field f
Setters(configs, f) ==
  {i \in 1..Len(configs) : IsSome(FieldOf(configs[i].config, f))}
\* the value of the most specific config that sets f, None when none does
C14_MostSpecific(configs, f) ==
  IF Setters(configs, f) = {} THEN None
  ELSE FieldOf(configs[MaxOf(Setters(configs, f))].config, f)
C14_Call(c) ==
  IF c.configs = <<>> THEN c.result = None
  ELSE /\ IsSome(c.result)
       /\ Unwrap(c.result).resolved_config = C14_Fold(c.configs, Len(c.configs))
       /\ \A f \in ConfigFields :
            FieldOf(Unwrap(c.result).resolved_config, f) = C14_MostSpecific(c.configs, f)

\* C14: for a non-empty parent-first list of stored configs resolve_config
\* returns a ResolvedConfig whose resolved_config is the left fold of merge
\* over the list, so every field holds the value of the most specific config
\* that sets it and is absent only when no config sets it; for the empty list
\* the result is none.
C14_ResolveIsLeftFold ==
  \A i \in 1..Len(calls) : calls[i].op = "resolve_config" => C14_Call(calls[i])

\* the five scope levels, parents first (db.rs 35-46)
ScopeRank(id) ==
  CASE id.k = "All" -> 1 [] id.k = "Type" -> 2 [] id.k = "Category" -> 3
    [] id.k = "Item" -> 4 [] id.k = "Occ" -> 5
ParentFirst(configs) ==
  \A i \in 2..Len(configs) : ScopeRank(configs[i - 1].id) < ScopeRank(configs[i].id)
\* c resolves a parent-first list of three configs in which a field is set
\* by the first config only and another field by two configs with different
\* values
C14_Chain(c) ==
  /\ c.op = "resolve_config"
  /\ Len(c.configs) = 3
  /\ ParentFirst(c.configs)
  /\ \E f \in ConfigFields : Setters(c.configs, f) = {1}
  /\ \E f \in ConfigFields : \E i, j \in Setters(c.configs, f) :
       /\ i < j
       /\ FieldOf(c.configs[i].config, f) # FieldOf(c.configs[j].config, f)
C14_Witness ==
  \E i \in 1..Len(calls) : C14_Chain(calls[i])

\* the nodes of the parent chain, the head first
RECURSIVE ChainOf(_)
ChainOf(rc) ==
  IF rc.parent = None THEN <<rc>> ELSE <<rc>> \o ChainOf(Unwrap(rc.parent))
C15_Chain(configs, chain) ==
  /\ Len(chain) = Len(configs)
  /\ \A i \in 1..Len(chain) :
       /\ chain[i].id = configs[Len(configs) + 1 - i].id
       /\ chain[i].scope_config = configs[Len(configs) + 1 - i].config

\* C15: for a list of n >= 1 stored configs the ResolvedConfig returned by
\* resolve_config heads a parent chain of exactly n nodes, one per stored
\* config in the same order, the node of the first config having no parent.
C15_ChainHasOneNodePerConfig ==
  \A i \in 1..Len(calls) :
    (calls[i].op = "resolve_config" /\ calls[i].configs # <<>>) =>
      /\ IsSome(calls[i].result)
      /\ C15_Chain(calls[i].configs, ChainOf(Unwrap(calls[i].result)))

\* the resolved configs a lookup result holds for object obj
ConfigsFor(r, obj) ==
  {r.out[i].config : i \in {j \in 1..Len(r.out) : r.out[j].obj = obj}}
\* the lookup of the batch's element i alone
Alone(c, i) ==
  IF c.op = "get_items_configs" THEN get_items_configs(store, <<c.objects[i]>>)
  ELSE get_occs_configs(store, <<c.objects[i]>>)
ObjectOf(c, i) ==
  IF c.op = "get_items_configs" THEN c.objects[i] ELSE c.objects[i][2]
ScopesOf(c, i) ==
  IF c.op = "get_items_configs" THEN SeqToSet(build_config_ids_item(c.objects[i]))
  ELSE SeqToSet(build_config_ids_occ(c.objects[i][1], c.objects[i][2]))
C16_Call(c) ==
  /\ c.result.queries = <<UNION {ScopesOf(c, i) : i \in 1..Len(c.objects)}>>
  /\ \A i \in 1..Len(c.objects) :
       ConfigsFor(c.result, ObjectOf(c, i)) = ConfigsFor(Alone(c, i), ObjectOf(c, i))

\* C16: for a batch of items or occurrences the resolved config returned for
\* each object equals the one returned when the object is looked up alone,
\* also when objects of the batch share scopes; and the batch makes exactly
\* one get_configs call, with the de-duplicated union of the scopes.
C16_BatchEqualsSingleLookups ==
  \A i \in 1..Len(calls) :
    calls[i].op \in {"get_items_configs", "get_occs_configs"} => C16_Call(calls[i])

(***************************************************************************)
(* Claims about util/progress.rs, checked under SpecProgress.  A call's    *)
(* result is the ProgressState at the end of                               *)
(* resolve_occs_progress_using, its occurrences named by their index.      *)
(***************************************************************************)
RECURSIVE SumTo(_, _)
\* f[1] + ... + f[n]
SumTo(f, n) ==
  IF n = 0 THEN 0 ELSE f[n] + SumTo(f, n - 1)
Resolved(c) ==
  c.op = "resolve_occs_progress_using" /\ c.result.kind = "ok"

WeekWindows ==
  Config(None, TaskCompletionConfig(Some(10), None, Some(Days(7)), Some(Days(7))))
\* scenario S5: A = [day 1, day 8), B = [day 8, day 15), progress 15 and 3,
\* total 10, both windows 7 days
ScenarioS5 ==
  <<ProgressPair(1, 15, WeekWindows), ProgressPair(2, 3, WeekWindows)>>
C17_Call(c) ==
  /\ Resolved(c) =>
       SumTo([i \in 1..Len(c.occs) |-> c.result.results[i].donated_excess], Len(c.occs))
         = SumTo([i \in 1..Len(c.occs) |-> c.result.results[i].received_excess],
                 Len(c.occs))
  /\ (c.op = "resolve_occs_progress_using" /\ c.occs = ScenarioS5) =>
       /\ c.result.kind = "ok"
       /\ c.result.results = <<TaskProgress(15, 10, 5, 0), TaskProgress(3, 10, 0, 5)>>

\* C17: whenever an amount is added to a recipient's received_excess the same
\* amount is added to the donor's donated_excess, so after a resolution the
\* donated_excess of all occurrences sum to the received_excess of all
\* occurrences; scenario S5 gives A donated 5, received 0 and B donated 0,
\* received 5.
C17_DonationsAccountBothSides ==
  \A i \in 1..Len(calls) : C17_Call(calls[i])

\* d is a future donor of r: it starts at or after r's end and before the end
\* of r's excess_future window
FutureDonor(occs, r, d) ==
  /\ r # d
  /\ occs[d][1].start >= occs[r][1].end
  /\ occs[d][1].start < occs[r][1].end
                          + UnwrapOr(CompletionOf(occs, r).excess_future, 0)
C18_Call(c) ==
  Resolved(c) =>
    \A r, d \in 1..Len(c.occs) :
      FutureDonor(c.occs, r, d) =>
        /\ \E k \in 1..Len(c.result.donations) :
             c.result.donations[k]
               = Donation(r, d, c.occs[d][1].start - c.occs[r][1].end)
        \* two occurrences, r below its target and d above its own
        /\ (/\ Len(c.occs) = 2
            /\ c.result.results[r].progress < c.result.results[r].total
            /\ c.result.results[d].progress > c.result.results[d].total) =>
             c.result.results[r].received_excess > 0

\* C18: for every recipient r and every other occurrence d with
\* d.start >= r.end and d.start < r.end + r.cfg.excess_future the pair (r, d)
\* is a donation candidate with distance d.start - r.end, so an occurrence
\* below its target receives excess from a later occurrence within its
\* excess_future window.
C18_FutureDonorsAreCandidates ==
  \A i \in 1..Len(calls) : C18_Call(calls[i])

NoWindows(occs) ==
  \A i \in 1..Len(occs) :
    /\ UnwrapOr(CompletionOf(occs, i).excess_past, 0) = 0
    /\ UnwrapOr(CompletionOf(occs, i).excess_future, 0) = 0

\* C19: when every occurrence has excess_past = 0 and excess_future = 0 (or
\* unset), received_excess is 0 for every occurrence, whatever the progress,
\* totals and time ranges.
C19_NoWindowsNoDonation ==
  \A i \in 1..Len(calls) :
    (Resolved(calls[i]) /\ NoWindows(calls[i].occs)) =>
      \A r \in 1..Len(calls[i].occs) : calls[i].result.results[r].received_excess = 0

\* the amounts transferred from donor d, in the order of the transfers
AmountsFrom(transfers, d) ==
  [k \in 1..Len(transfers) |->
     IF transfers[k].donor = d THEN transfers[k].amount ELSE 0]
TransferredFrom(transfers, d) ==
  SumTo(AmountsFrom(transfers, d), Len(transfers))
\* the excess of an occurrence: what its progress has above its total
InitialExcess(p) ==
  IF p.progress > p.total THEN p.progress - p.total ELSE 0
C20_Call(c) ==
  Resolved(c) =>
    \A d \in 1..Len(c.occs) :
      /\ TransferredFrom(c.result.transfers, d)
           = Unwrap(OccExcess(c.occs, d, FALSE)) - c.result.occs_excess[d]
      /\ TransferredFrom(c.result.transfers, d) <= InitialExcess(c.result.results[d])

\* C20: for every donor the amounts transferred from it to all recipients sum
\* to its initial excess minus its remaining excess and never exceed its
\* initial excess: a unit of excess is counted for at most one recipient.
C20_DonationConservesExcess ==
  \A i \in 1..Len(calls) : C20_Call(calls[i])

\* C21: donations are applied in ascending order of (distance, recipient
\* start, donor start), so what each occurrence ends with does not depend on
\* the order in which the occurrences are given; and in scenario S6 (raw
\* progress 12, 3, 3, total 10, O1 nearer to O0 than O2) O1 receives the
\* excess of 2 and O2 receives nothing.
\* the order of the starts: the permutation that sorts the occurrences
ByStart(occs) ==
  CHOOSE p \in Orders(Len(occs)) :
    \A i \in 2..Len(occs) : occs[p[i - 1]][1].start < occs[p[i]][1].start
C21_SameAsSorted(occs, p, got, sorted) ==
  /\ got.kind = sorted.kind
  /\ got.kind = "ok" => \A i \in 1..Len(occs) : got.results[p[i]] = sorted.results[i]
C21_OrderFree(c) ==
  C21_SameAsSorted(c.occs, ByStart(c.occs), c.result,
                   resolve_occs_progress_using(
                     [i \in 1..Len(c.occs) |-> c.occs[ByStart(c.occs)[i]]],
                     overflow_checks))
C21_Ascending(c) ==
  \A k \in 2..Len(c.result.donations) :
    DonationBefore(c.occs, c.result.donations[k - 1], c.result.donations[k])
\* three periods of a week, the second starting inside the first and the
\* third when the first ends: O0 can give to O1 (nearer) and to O2
ScenarioS6 ==
  <<ProgressPair(1, 12, WeekWindows), ProgressPair(4, 3, WeekWindows),
    ProgressPair(2, 3, WeekWindows)>>
C21_S6(c) ==
  c.occs = ScenarioS6 =>
    /\ c.result.kind = "ok"
    /\ c.result.results[2].received_excess = 2
    /\ c.result.results[3].received_excess = 0
C21_NearestFirstAnyOrder ==
  \A k \in 1..Len(calls) :
    calls[k].op = "resolve_occs_progress_using" =>
      C21_OrderFree(calls[k]) /\ C21_Ascending(calls[k]) /\ C21_S6(calls[k])

\* C22: for every requested occurrence, resolve_occs_progress reports the
\* received_excess that the donation algorithm gives it when it is run on
\* all the stored occurrences of the item.
\* the stored occurrences of the item, each with its config, by start
AllStored(st) ==
  [k \in 1..Cardinality(st.occs) |-> ResolveRequested(st, RowsById(st.occs)[k])]
C22_SameAsAll(c, all, full) ==
  full.kind = "ok" =>
    /\ c.result.kind = "ok"
    /\ \A j \in 1..Len(c.occs[1][2]) :
         /\ c.occs[1][2][j][1] \in DOMAIN c.result.out
         /\ \A i \in 1..Len(all) :
              all[i][1] = c.occs[1][2][j][1] =>
                c.result.out[all[i][1]].received_excess = full.results[i].received_excess
C22_TwoExpansionsSuffice ==
  \A k \in 1..Len(calls) :
    calls[k].op = "resolve_occs_progress" =>
      C22_SameAsAll(calls[k], AllStored(store),
                    resolve_occs_progress_using(AllStored(store), overflow_checks))

\* C23: in_alert_period(occ, cfg, now) is true exactly when
\* now >= occ.end - cfg.occ_alert and now < occ.end, an absent occ_alert
\* counting as zero; two calls with the same arguments give the same answer
\* whenever they are made.
C23_Alert(c) ==
  /\ c.date >= c.occ.end - UnwrapOr(c.config.resolved_config.occ_alert, 0)
  /\ c.date < c.occ.end
C23_SameArgs(c, d) ==
  c.occ = d.occ /\ c.config = d.config /\ c.date = d.date
C23_AlertIsStateless ==
  \A i, j \in 1..Len(calls) :
    calls[i].op = "in_alert_period" /\ calls[j].op = "in_alert_period" =>
      /\ calls[i].result = C23_Alert(calls[i])
      /\ C23_SameArgs(calls[i], calls[j]) => calls[i].result = calls[j].result

\* C24: find_items with min_end given returns every recurring item (one whose
\* only_occ_end is null) that passes the active filter, and of the others
\* only those whose occurrence ends after min_end; so get_current_items
\* considers every active recurring item.
C24_Passes(r, active) ==
  IsSome(active) => r.item.active = Unwrap(active)
C24_Find(c) ==
  IsSome(c.start) =>
    /\ c.result.kind = "ok"
    /\ \A r \in c.pre.items :
         /\ (~IsSome(r.only_occ_end) /\ C24_Passes(r, c.active))
              => \E k \in 1..Len(c.result.items) : c.result.items[k] = fromdb_item(r)
         /\ (IsSome(r.only_occ_end) /\ \E k \in 1..Len(c.result.items) :
                                          c.result.items[k] = fromdb_item(r))
              => Unwrap(r.only_occ_end) > todb_occ_date(Unwrap(c.start))
C24_Current(c) ==
  (\E r \in c.pre.items : r.item.active /\ ~IsSome(r.only_occ_end)) => c.kind = "ok"
C24_FindItemsKeepsRecurring ==
  \A k \in 1..Len(calls) :
    /\ calls[k].op = "find_items" => C24_Find(calls[k])
    /\ calls[k].op = "get_current_items" => C24_Current(calls[k])

\* C25: after any sequence of write batches each config scope has at most one
\* stored config: a SetConfig for a scope that has a config replaces it, so
\* the configs table holds exactly one row for every scope that has any.
\* the rows that get_configs selects for a scope
ConfigRowsOf(st, scope) ==
  {r \in st.configs : r.scope = scope}
C25_OneConfigPerScope ==
  \A r \in store.configs : Cardinality(ConfigRowsOf(store, r.scope)) = 1

\* C26: when two callers run get_items_current_occ for the same item and
\* date with their reads and writes interleaved, the store they leave is one
\* that the two calls leave when one runs after the other; and the item
\* never has two occurrences with the same start and end.
\* the stores one call can leave, started on st
CallStoresOf(st, acc) ==
  IF acc.kind # "ok" THEN {st}
  ELSE {DbWrite(st, OccUpdates(acc.new_occs, order), fault).st :
          order \in Orders(Len(acc.new_occs)), fault \in 0..(Len(acc.new_occs) + 1)}
CallStores(st, date) ==
  UNION {CallStoresOf(st, ScanItems(ScanInit(0), StoredItems(st.items), latest, 1, date,
                                    overflow_checks)) :
           latest \in LatestChoices(st, StoredItems(st.items))}
SerialStores(st, date) ==
  UNION {CallStores(s, date) : s \in CallStores(st, date)}
NoTwinOccs(st) ==
  \A r, q \in st.occs :
    r.item_id = q.item_id /\ r.start_date = q.start_date /\ r.end_date = q.end_date
      => r = q
C26_Serialisable ==
  (\A p \in Callers : Unwrap(request).callers[p].pc = "done")
    => /\ store \in SerialStores([store EXCEPT !.occs = {}], Unwrap(request).date)
       /\ NoTwinOccs(store)

\* C27: two runs of get_items_current_occ from the same store with the same
\* items and date give the same answer (the same occurrences with the same
\* ids) and leave the same store, in whatever order the pending creates are
\* enumerated when the batch is built.
\* the run that enumerates the creates in the order they were collected
RunWritten(date, acc, w) ==
  [post |-> w.st, result |-> CurrentOf(date, acc.items_last_occ \o LastNew(acc, w.ids))]
RunScanned(st, date, acc) ==
  RunWritten(date, acc,
             DbWrite(st, OccUpdates(acc.new_occs, [i \in 1..Len(acc.new_occs) |-> i]), 0))
RunInOrder(st, date, latest) ==
  RunScanned(st, date,
             ScanItems(ScanInit(0), StoredItems(st.items), latest, 1, date,
                       overflow_checks))
C27_Call(c) ==
  \E latest \in LatestChoices(c.pre, StoredItems(c.pre.items)) :
    [post |-> c.post, result |-> c.result] = RunInOrder(c.pre, c.date, latest)
C27_SameRunWhateverTheOrder ==
  \A k \in 1..Len(calls) :
    (calls[k].op = "current" /\ calls[k].kind = "ok") => C27_Call(calls[k])

\* C28: once the cursor of a DayFilterDaysIter or ProgressTaskPeriodsIter has
\* saturated at the maximum date, next() yields nothing more and the stream
\* ends: it does not yield again, repeat a value, panic or hang.
C28_Saturated ==
  it_status = "running" /\ it_iter.day = NaiveDateMAX
C28_SaturationIsTerminal ==
  [][C28_Saturated => (it_out' = it_out /\ it_status' = "ended")]_vars

\* C29: every occurrence that generate_first or generate_after returns has
\* active = true, task_completion_progress = 0 and end >= start, and for an
\* Event schedule start = end.
C29_WellFormed(sched, occ) ==
  /\ occ.active
  /\ occ.task_completion_progress = 0
  /\ occ.end >= occ.start
  /\ sched.k = "Event" => occ.start = occ.end
C29_GeneratedOccsWellFormed ==
  \A k \in 1..Len(calls) :
    calls[k].op \in {"generate_first", "generate_after"} =>
      \A i \in 1..Len(calls[k].occs) : C29_WellFormed(calls[k].sched, calls[k].occs[i])
\* generate_first gave an occurrence and generate_after gave two or more
C29_Witness ==
  /\ Len(calls) >= 2
  /\ calls[1].op = "generate_first" /\ Len(calls[1].occs) = 1
  /\ calls[2].op = "generate_after" /\ Len(calls[2].occs) >= 2
  /\ calls[2].sched.k # "Event"
\* the occurrences persisted by get_items_current_occ
C29_Persisted ==
  \A r \in store.occs : \A i \in store.items :
    i.id = r.item_id => C29_WellFormed(i.item.sched, fromdb_occ(r).occ)

\* C30: forwards_to_dow(date, dow) returns the first date on or after date
\* whose weekday is dow, date itself when it has that weekday, also when dow
\* comes earlier in the week than date's weekday.  The first next() of a Dow
\* filter yields forwards_to_dow(start_day, dow).
C30_DaysAhead(date, dow) ==
  (dow + 7 - WeekdayOf(date)) % 7
C30_ForwardsToDow ==
  (it_kind = "days" /\ it_iter.day_filter.k = "Dow") =>
    /\ it_status # "panicked"
    /\ Len(it_out) >= 1 => it_out[1] = it_start + C30_DaysAhead(it_start, it_iter.day_filter.day)

\* the total and the donatable excess the initialisation is to give
C31_Total(occs, i) ==
  IF UnwrapOr(CompletionOf(occs, i).total, 1) < 1 THEN 1
  ELSE UnwrapOr(CompletionOf(occs, i).total, 1)
C31_Excess(occs, i) ==
  IF occs[i][1].task_completion_progress > C31_Total(occs, i)
  THEN occs[i][1].task_completion_progress - C31_Total(occs, i)
  ELSE 0
C31_Call(c, checks) ==
  c.op = "resolve_occs_progress_using" =>
    /\ \A i \in 1..Len(c.occs) :
         OccExcess(c.occs, i, checks) = Some(C31_Excess(c.occs, i))
    /\ c.result.kind = "ok" =>
         /\ \A i \in 1..Len(c.occs) : c.result.results[i].total = C31_Total(c.occs, i)
         /\ \A t \in 1..Len(c.result.transfers) :
              C31_Excess(c.occs, c.result.transfers[t].donor) = 0 =>
                c.result.transfers[t].amount = 0
\* C31: resolve_occs_progress_using starts every occurrence with
\* total = max(1, cfg.total), 1 when the total is unset, and with a donatable
\* excess of max(0, raw progress - total), which is never negative; an
\* occurrence whose raw progress is at or below its total has excess 0 and
\* gives nothing to any recipient.
C31_ProgressInitialisation ==
  \A k \in 1..Len(calls) : C31_Call(calls[k], overflow_checks)

\* C32: generate_after returns a finite list for every schedule the types
\* admit and every finite horizon, also for Day{days_apart = 0},
\* Dow{weeks_apart = 0}, ProgressTask Days{num = 0}, ProgressTask Months
\* with start_day >= 29 and a DeadlineTask of zero duration: no call of it
\* runs for ever.
C32_GenerateAfterTerminates ==
  \A k \in 1..Len(calls) :
    calls[k].op = "generate_after" => calls[k].kind # "hang"

\* what recipient p holds after the resolution; a received_excess kept as a
\* negative integer is a u32 above 2^31
C33_Recipient(p) ==
  /\ p.received_excess # 0 =>
       /\ p.received_excess > 0
       /\ p.progress + p.received_excess <= p.total
  /\ p.progress >= p.total => p.received_excess = 0
\* C33: after resolve_occs_progress_using on any occurrences, an occurrence
\* with received_excess > 0 has progress + received_excess <= total, however
\* many donors lie within its window, and an occurrence whose raw progress
\* is at or above its total has received nothing.
C33_NeverAboveTarget ==
  \A k \in 1..Len(calls) :
    Resolved(calls[k]) =>
      \A i \in 1..Len(calls[k].occs) : C33_Recipient(calls[k].result.results[i])

\* the positions of batch u where a CreateOcc names as its item a token
\* that the latest earlier create of that token made for an occurrence
C34_OccTokens(u) ==
  {i \in 1..Len(u) :
     /\ u[i].k = "CreateOcc"
     /\ u[i].item_id.t = "Token"
     /\ \E j \in 1..(i - 1) : IsCreate(u[j]) /\ u[j].id_token = u[i].item_id.token
     /\ u[Binder(u, i)].k = "CreateOcc"}
\* C34: within a write batch a token resolves only to an object of the kind
\* it was created for: a batch with a CreateOcc whose item_id is the token
\* of an earlier CreateOcc is rejected, and creates no occurrence whose
\* parent id is the id of that other occurrence.
C34_TokensKeepTheirKind ==
  [][(request # None /\ request' = None /\ C34_OccTokens(Unwrap(request).updates) # {})
       => ~calls'[1].ok]_vars

\* the instant of a one-off event: the date of its filter at the schedule's
\* time of day
C35_EventInstant(sched) ==
  AndTime(with_moy_dom_saturating(of_year(sched.days.year), sched.days.month,
                                  sched.days.dom),
          UnwrapOr(sched.time, 0))
C35_Row(r, sched) ==
  IF sched.k = "Event" /\ sched.days.k = "Date"
  THEN r.only_occ_end = Some(todb_occ_date(C35_EventInstant(sched)))
  ELSE r.only_occ_end = None
\* C35: after every CreateItem and UpdateItem the item's only_occ_end is
\* non-null exactly when its schedule is an Event with a DayFilter::Date
\* filter, and it is then the epoch seconds of the event's instant, the
\* filter's date at the schedule's time; for every other schedule it is null.
C35_OnlyOccEndIsTheEventInstant ==
  \A r \in store.items : C35_Row(r, r.item.sched)

\* C36: get_configs(scopes) returns exactly the stored configs whose scope
\* is one of the requested scopes, for every set of requested scopes, also
\* one with Category, Item or Occ scopes and no Type scope, and the empty
\* set; a scope with no stored config is left out without error.
C36_GetConfigsReturnsStored ==
  \A k \in 1..Len(calls) :
    calls[k].op = "get_configs" =>
      /\ calls[k].result.kind = "ok"
      /\ calls[k].result.configs
           = {c \in {fromdb_config(r) : r \in store.configs} : c.id \in calls[k].ids}

\* C37: the values returned by DbUpdate::id_token() calls made from any
\* interleaving of threads are pairwise distinct, and the values returned to
\* one thread by its successive calls are strictly increasing, as long as no
\* more calls have been made than the counter has values (2^64 in the
\* source, TokenModulus here).
C37_UniqueAndIncreasing ==
  Len(calls) <= TokenModulus =>
    \A i, j \in 1..Len(calls) :
      (calls[i].op = "id_token" /\ calls[j].op = "id_token" /\ i < j) =>
        /\ calls[i].result # calls[j].result
        /\ calls[i].thread = calls[j].thread => calls[i].result < calls[j].result
\* every value of the counter has been handed out, to three threads whose
\* calls interleave
C37_Witness ==
  /\ Len(calls) = TokenModulus
  /\ \A t \in Threads : \E i \in 1..Len(calls) : calls[i].thread = t
  /\ calls[1].op = "id_token"
  /\ calls[1].thread # calls[2].thread
  /\ calls[1].thread = calls[3].thread

====
